---- MODULE Spec2Model ----
(***************************************************************************)
(* Frame comparison engine of stb-tester: the pixel metric sqdiff and the  *)
(* thresholded difference map threshold_diff_bgr of _stbt/sqdiff.c.        *)
(*                                                                         *)
(* C integers keep their width.  TLC's own integers are 32-bit signed, so  *)
(* a uint32_t or uint64_t value is a little-endian tuple of 16-bit limbs   *)
(* (2 limbs for uint32_t, 4 for uint64_t) and every addition reports the   *)
(* carry out of its top limb.  A record field "wrap" is a history flag: it *)
(* is TRUE once any conversion or addition has lost bits.                  *)
(***************************************************************************)
EXTENDS Integers, Sequences, FiniteSets, TLC

VARIABLES call, ret, out, lp, filter, thread, bus, pushed

\* call, ret, out, lp: one call of a function, its return value, its output
\* buffer and its position; filter, thread, bus, pushed: an element of the
\* pipeline, its threads, the messages posted on the bus and the buffers
\* pushed downstream
kernelVars == <<call, ret, out, lp>>

elementVars == <<filter, thread, bus, pushed>>

vars == <<call, ret, out, lp, filter, thread, bus, pushed>>

(***************************************************************************)
(* Bounds of the function-level specifications.                            *)
(***************************************************************************)
MaxW == 2
MaxH == 2
MaxPx == 4
MaxPad == 1

(***************************************************************************)
(* Program constants.                                                      *)
(***************************************************************************)
PIXEL_DEPTH_U8 == 0
PIXEL_DEPTH_BGR == 1
PIXEL_DEPTH_BGRx == 2
PIXEL_DEPTH_BGRA == 3

\* uint8_t, uint16_t / int16_t, and int ranges
TwoTo8 == 256
TwoTo15 == 32768
TwoTo16 == 65536
UINT16_MAX == 65535
\* the presence value of the 4th byte of a BGRA pixel
ALPHA_PRESENT == 255

Null == [kind |-> "none"]
AssertFail == [kind |-> "assert"]

(***************************************************************************)
(* Fixed-width arithmetic.                                                 *)
(***************************************************************************)
\* conversion to uint16_t
U16(x) == x % TwoTo16
\* conversion to int16_t (two's complement)
I16(x) == ((x + TwoTo15) % TwoTo16) - TwoTo15

\* an int in 0 .. 2^31-1 converted to an unsigned value of k limbs
ToLimbs(v, k) == [i \in 1..k |-> IF i = 1 THEN v % TwoTo16
                                 ELSE IF i = 2 THEN (v \div TwoTo16) % TwoTo16
                                 ELSE 0]

\* the value of an unsigned limb tuple, when it is below 2^31
LimbVal(x) == x[1] + TwoTo16 * x[2]

\* x + y in the unsigned type of x (2 or 4 limbs), y a uint32_t zero-extended
\* to it; carry = 1 iff the sum wrapped
UAdd(x, y) ==
    LET s1 == x[1] + y[1]
        s2 == x[2] + y[2] + (s1 \div TwoTo16)
    IN IF Len(x) = 2
       THEN [val |-> <<s1 % TwoTo16, s2 % TwoTo16>>, carry |-> s2 \div TwoTo16]
       ELSE LET s3 == x[3] + (s2 \div TwoTo16)
                s4 == x[4] + (s3 \div TwoTo16)
            IN [val |-> <<s1 % TwoTo16, s2 % TwoTo16, s3 % TwoTo16,
                          s4 % TwoTo16>>,
                carry |-> s4 \div TwoTo16]

\* x * m in uint32_t, m a small constant; carry > 0 iff the product wrapped
UMul(x, m) ==
    LET s1 == x[1] * m
        s2 == x[2] * m + (s1 \div TwoTo16)
    IN [val |-> <<s1 % TwoTo16, s2 % TwoTo16>>, carry |-> s2 \div TwoTo16]

\* the exact product of two uint16_t operands, as 2 limbs (it is below 2^32)
MulU16(a, b) ==
    LET p0 == a * (b % TwoTo8)
        p1 == a * (b \div TwoTo8)
        low == (p1 % TwoTo8) * TwoTo8 + p0
    IN <<low % TwoTo16, (p1 \div TwoTo8) + (low \div TwoTo16)>>

\* whether an exact non-negative value fits a 32-bit signed int
IntFits(x) == x[2] < TwoTo15

\* width_px * height_px * k evaluated in int, as C's promotions make it, then
\* converted to uint32_t.  ub: the signed multiplication overflowed.
IntProduct(width_px, height_px, k) ==
    LET p == MulU16(width_px, height_px)
        pk == UMul(p, k)
    IN [val |-> pk.val,
        ub |-> ~IntFits(p) \/ ~IntFits(pk.val) \/ pk.carry > 0]

\* byte at C offset o of buffer m
Rd(m, o) == m[o + 1]

(***************************************************************************)
(* sqdiff.c: the per-row helpers.  A row accumulator is                    *)
(*   this_total  uint32_t (2 limbs)                                        *)
(*   this_count  uint16_t                                                  *)
(*   wrap        history flag                                              *)
(***************************************************************************)
RowInit == [this_total |-> <<0, 0>>, this_count |-> 0, wrap |-> FALSE]

\* mutation: the difference is kept in a uint8_t
U8_body_diff8(acc, a, b) ==
    LET d == a - b
        diff == d % TwoTo8
        p == diff * diff
        sq == U16(p)
        s == UAdd(acc.this_total, ToLimbs(sq, 2))
    IN [acc EXCEPT !.this_total = s.val,
                   !.wrap = @ \/ diff # d \/ sq # p \/ s.carry > 0]

\* mutation: this_total is a uint16_t
U8_body_total16(acc, a, b) ==
    LET d == a - b
        diff == I16(d)
        p == diff * diff
        sq == U16(p)
        s == acc.this_total[1] + sq
    IN [acc EXCEPT !.this_total = <<s % TwoTo16, 0>>,
                   !.wrap = @ \/ diff # d \/ sq # p \/ s >= TwoTo16]

\* body of the loop of sqdiff_U8: a and b are the bytes a[n] and b[n]
U8_body(acc, a, b) ==
    LET d == a - b
        diff == I16(d)
        p == diff * diff
        sq == U16(p)
        s == UAdd(acc.this_total, ToLimbs(sq, 2))
    IN [acc EXCEPT !.this_total = s.val,
                   !.wrap = @ \/ diff # d \/ sq # p \/ s.carry > 0]

RECURSIVE U8_loop(_, _, _, _, _, _, _)
U8_loop(acc, a, ao, b, bo, len, n) ==
    IF n < len
    THEN U8_loop(U8_body(acc, Rd(a, ao + n), Rd(b, bo + n)),
                 a, ao, b, bo, len, U16(n + 1))
    ELSE acc

\* sqdiff_U8(a + ao, b + bo, len)
sqdiff_U8(a, ao, b, bo, len) == U8_loop(RowInit, a, ao, b, bo, len, 0)

\* body of the loop of sqdiff_BGRx, t and f pointing at offsets to and fo
BGRx_body(acc, t, to, f, fo) ==
    LET db == Rd(t, to) - Rd(f, fo)
        dg == Rd(t, to + 1) - Rd(f, fo + 1)
        dr == Rd(t, to + 2) - Rd(f, fo + 2)
        diff_b == I16(db)
        diff_g == I16(dg)
        diff_r == I16(dr)
        sq == diff_b * diff_b + diff_g * diff_g + diff_r * diff_r
        s == UAdd(acc.this_total, ToLimbs(sq, 2))
    IN [acc EXCEPT !.this_total = s.val,
                   !.wrap = @ \/ diff_b # db \/ diff_g # dg \/ diff_r # dr
                              \/ s.carry > 0]

\* mutation: the template pointer advances 3 bytes a pixel
RECURSIVE BGRx_loop_step3(_, _, _, _, _, _, _)
BGRx_loop_step3(acc, t, to, f, fo, len, n) ==
    IF n < len
    THEN BGRx_loop_step3(BGRx_body(acc, t, to, f, fo),
                         t, to + 3, f, fo + 3, len, U16(n + 1))
    ELSE acc

RECURSIVE BGRx_loop(_, _, _, _, _, _, _)
BGRx_loop(acc, t, to, f, fo, len, n) ==
    IF n < len
    THEN BGRx_loop(BGRx_body(acc, t, to, f, fo),
                   t, to + 4, f, fo + 3, len, U16(n + 1))
    ELSE acc

\* sqdiff_BGRx(t + to, f + fo, len)
sqdiff_BGRx(t, to, f, fo, len) == BGRx_loop(RowInit, t, to, f, fo, len, 0)

\* mutation: a pixel is present when its 4th byte is not 0
BGRA_body_alpha_nonzero(acc, t, to, f, fo) ==
    LET db == Rd(t, to) - Rd(f, fo)
        dg == Rd(t, to + 1) - Rd(f, fo + 1)
        dr == Rd(t, to + 2) - Rd(f, fo + 2)
        diff_b == I16(db)
        diff_g == I16(dg)
        diff_r == I16(dr)
        diff_b2 == U16(diff_b * diff_b)
        diff_g2 == U16(diff_g * diff_g)
        diff_r2 == U16(diff_r * diff_r)
        sq == diff_b2 + diff_g2 + diff_r2
        present == IF Rd(t, to + 3) # 0 THEN 1 ELSE 0
        s == UAdd(acc.this_total, ToLimbs(sq * present, 2))
        c == acc.this_count + present
    IN [this_total |-> s.val,
        this_count |-> U16(c),
        wrap |-> acc.wrap \/ diff_b # db \/ diff_g # dg \/ diff_r # dr
                     \/ diff_b2 # diff_b * diff_b \/ diff_g2 # diff_g * diff_g
                     \/ diff_r2 # diff_r * diff_r
                     \/ s.carry > 0 \/ U16(c) # c]

\* mutation: the squared difference of a masked pixel is added too
BGRA_body_nomask(acc, t, to, f, fo) ==
    LET db == Rd(t, to) - Rd(f, fo)
        dg == Rd(t, to + 1) - Rd(f, fo + 1)
        dr == Rd(t, to + 2) - Rd(f, fo + 2)
        diff_b == I16(db)
        diff_g == I16(dg)
        diff_r == I16(dr)
        diff_b2 == U16(diff_b * diff_b)
        diff_g2 == U16(diff_g * diff_g)
        diff_r2 == U16(diff_r * diff_r)
        sq == diff_b2 + diff_g2 + diff_r2
        present == IF Rd(t, to + 3) = ALPHA_PRESENT THEN 1 ELSE 0
        s == UAdd(acc.this_total, ToLimbs(sq, 2))
        c == acc.this_count + present
    IN [this_total |-> s.val,
        this_count |-> U16(c),
        wrap |-> acc.wrap \/ diff_b # db \/ diff_g # dg \/ diff_r # dr
                     \/ diff_b2 # diff_b * diff_b \/ diff_g2 # diff_g * diff_g
                     \/ diff_r2 # diff_r * diff_r
                     \/ s.carry > 0 \/ U16(c) # c]

\* body of the loop of sqdiff_BGRA
BGRA_body(acc, t, to, f, fo) ==
    LET db == Rd(t, to) - Rd(f, fo)
        dg == Rd(t, to + 1) - Rd(f, fo + 1)
        dr == Rd(t, to + 2) - Rd(f, fo + 2)
        diff_b == I16(db)
        diff_g == I16(dg)
        diff_r == I16(dr)
        diff_b2 == U16(diff_b * diff_b)
        diff_g2 == U16(diff_g * diff_g)
        diff_r2 == U16(diff_r * diff_r)
        sq == diff_b2 + diff_g2 + diff_r2
        present == IF Rd(t, to + 3) = ALPHA_PRESENT THEN 1 ELSE 0
        s == UAdd(acc.this_total, ToLimbs(sq * present, 2))
        c == acc.this_count + present
    IN [this_total |-> s.val,
        this_count |-> U16(c),
        wrap |-> acc.wrap \/ diff_b # db \/ diff_g # dg \/ diff_r # dr
                     \/ diff_b2 # diff_b * diff_b \/ diff_g2 # diff_g * diff_g
                     \/ diff_r2 # diff_r * diff_r
                     \/ s.carry > 0 \/ U16(c) # c]

RECURSIVE BGRA_loop(_, _, _, _, _, _, _)
BGRA_loop(acc, t, to, f, fo, len, n) ==
    IF n < len
    THEN BGRA_loop(BGRA_body(acc, t, to, f, fo),
                   t, to + 4, f, fo + 3, len, U16(n + 1))
    ELSE acc

\* sqdiff_BGRA(&count, t + to, f + fo, len): the row accumulator on return;
\* the caller's *count += this_count is RowReturn's
sqdiff_BGRA(t, to, f, fo, len) == BGRA_loop(RowInit, t, to, f, fo, len, 0)

(***************************************************************************)
(* sqdiff.c: sqdiff.  The result under construction is                     *)
(*   total  uint64_t (4 limbs)     count  uint32_t (2 limbs)               *)
(*   wrap   history flag: some conversion or unsigned operation lost bits  *)
(*   ub     history: the signed int operations that overflowed, "count"    *)
(*          (width_px * height_px [* 3]) and "offset" (y * stride)         *)
(***************************************************************************)
TBpp(color_depth) ==
    CASE color_depth = PIXEL_DEPTH_U8 -> 1
      [] color_depth = PIXEL_DEPTH_BGR -> 3
      [] OTHER -> 4

FBpp(color_depth) == IF color_depth = PIXEL_DEPTH_U8 THEN 1 ELSE 3

\* mutation: the template stride of the 4-byte layouts is checked against
\* 3 bytes a pixel
sqdiff_asserts_loose(t_stride, f_stride, width_px, height_px, color_depth) ==
    /\ width_px > 0 /\ height_px > 0
    /\ CASE color_depth = PIXEL_DEPTH_U8 ->
              f_stride >= width_px /\ t_stride >= width_px
         [] color_depth \in {PIXEL_DEPTH_BGR, PIXEL_DEPTH_BGRx,
                             PIXEL_DEPTH_BGRA} ->
              f_stride >= width_px * 3 /\ t_stride >= width_px * 3
         [] OTHER -> FALSE

\* the assertions of sqdiff
sqdiff_asserts(t_stride, f_stride, width_px, height_px, color_depth) ==
    /\ width_px > 0 /\ height_px > 0
    /\ CASE color_depth = PIXEL_DEPTH_U8 ->
              f_stride >= width_px /\ t_stride >= width_px
         [] color_depth = PIXEL_DEPTH_BGR ->
              f_stride >= width_px * 3 /\ t_stride >= width_px * 3
         [] color_depth = PIXEL_DEPTH_BGRx ->
              f_stride >= width_px * 3 /\ t_stride >= width_px * 4
         [] color_depth = PIXEL_DEPTH_BGRA ->
              f_stride >= width_px * 3 /\ t_stride >= width_px * 4
         [] OTHER -> FALSE

\* out.count as assigned before the loop over the rows
sqdiff_count_init(width_px, height_px, color_depth) ==
    CASE color_depth = PIXEL_DEPTH_U8 -> IntProduct(width_px, height_px, 1)
      [] color_depth = PIXEL_DEPTH_BGR -> IntProduct(width_px, height_px, 3)
      [] color_depth = PIXEL_DEPTH_BGRx -> IntProduct(width_px, height_px, 3)
      [] OTHER -> [val |-> <<0, 0>>, ub |-> FALSE]

\* the length argument of the row helper, converted to its uint16_t parameter
sqdiff_row_len(width_px, color_depth) ==
    IF color_depth = PIXEL_DEPTH_BGR THEN width_px * 3 ELSE width_px

\* the row helper called for one row
sqdiff_row_call(color_depth, t, to, f, fo, len) ==
    CASE color_depth = PIXEL_DEPTH_U8 -> sqdiff_U8(t, to, f, fo, len)
      [] color_depth = PIXEL_DEPTH_BGR -> sqdiff_U8(t, to, f, fo, len)
      [] color_depth = PIXEL_DEPTH_BGRx -> sqdiff_BGRx(t, to, f, fo, len)
      [] OTHER -> sqdiff_BGRA(t, to, f, fo, len)

\* out.total += <row helper's result>, and *count += this_count
RowReturn(o, color_depth, row) ==
    LET s == UAdd(o.total, row.this_total)
        c == IF color_depth = PIXEL_DEPTH_BGRA
             THEN UAdd(o.count, ToLimbs(row.this_count, 2))
             ELSE [val |-> o.count, carry |-> 0]
    IN [o EXCEPT !.total = s.val, !.count = c.val,
                 !.wrap = @ \/ row.wrap \/ s.carry > 0 \/ c.carry > 0]

\* whether the int products y * t_stride and y * f_stride fit an int
OffsetsFit(y, t_stride, f_stride) ==
    IntFits(MulU16(y, t_stride)) /\ IntFits(MulU16(y, f_stride))

OffsetUB(y, t_stride, f_stride) ==
    IF OffsetsFit(y, t_stride, f_stride) THEN {} ELSE {"offset"}

CountUB(c) == IF c.ub THEN {"count"} ELSE {}

\* mutation: row y is read at y times the bytes of a row, not at y * stride
RECURSIVE sqdiff_rows_tight(_, _, _, _, _, _, _, _, _)
sqdiff_rows_tight(o, t, t_stride, f, f_stride, width_px, height_px, color_depth, y) ==
    IF y < height_px
    THEN LET l == sqdiff_row_len(width_px, color_depth)
             row == sqdiff_row_call(color_depth,
                                    t, y * width_px * TBpp(color_depth),
                                    f, y * width_px * FBpp(color_depth),
                                    U16(l))
             o1 == RowReturn(o, color_depth, row)
         IN sqdiff_rows_tight(o1, t, t_stride, f, f_stride, width_px,
                              height_px, color_depth, U16(y + 1))
    ELSE o

\* the loop over the rows of sqdiff, at row y
RECURSIVE sqdiff_rows(_, _, _, _, _, _, _, _, _)
sqdiff_rows(o, t, t_stride, f, f_stride, width_px, height_px, color_depth, y) ==
    IF y < height_px
    THEN LET l == sqdiff_row_len(width_px, color_depth)
             row == sqdiff_row_call(color_depth, t, y * t_stride,
                                    f, y * f_stride, U16(l))
             o1 == RowReturn(o, color_depth, row)
             o2 == [o1 EXCEPT !.wrap = @ \/ U16(l) # l,
                              !.ub = @ \cup OffsetUB(y, t_stride, f_stride)]
         IN sqdiff_rows(o2, t, t_stride, f, f_stride, width_px, height_px,
                        color_depth, U16(y + 1))
    ELSE o

\* mutation: the count of present pixels is not multiplied by 3
sqdiff_count_final_nomul(o, color_depth) == o

\* out.count *= 3 of the BGRA case
sqdiff_count_final(o, color_depth) ==
    IF color_depth = PIXEL_DEPTH_BGRA
    THEN LET m == UMul(o.count, 3)
         IN [o EXCEPT !.count = m.val, !.wrap = @ \/ m.carry > 0]
    ELSE o

sqdiff(t, t_stride, f, f_stride, width_px, height_px, color_depth) ==
    IF ~sqdiff_asserts(t_stride, f_stride, width_px, height_px, color_depth)
    THEN AssertFail
    ELSE LET c == sqdiff_count_init(width_px, height_px, color_depth)
             o == [kind |-> "ok", total |-> <<0, 0, 0, 0>>, count |-> c.val,
                   wrap |-> FALSE, ub |-> CountUB(c)]
         IN sqdiff_count_final(
                sqdiff_rows(o, t, t_stride, f, f_stride, width_px, height_px,
                            color_depth, 0),
                color_depth)

(***************************************************************************)
(* Inputs of the function-level specifications: images of at most MaxPx    *)
(* pixels, laid out with the tightest stride and with one of MaxPad         *)
(* bytes more, the bytes between the rows filled with PadByte.             *)
(***************************************************************************)
Crash == [kind |-> "crash"]

Shapes == {s \in (1..MaxW) \X (1..MaxH) : s[1] * s[2] <= MaxPx}

\* the byte that fills the space between the rows
PadByte == 77

\* template pixels, as laid out in memory
TPal(color_depth) ==
    CASE color_depth = PIXEL_DEPTH_U8 -> {<<0>>, <<10>>, <<255>>}
      [] color_depth = PIXEL_DEPTH_BGR ->
            {<<0, 0, 0>>, <<10, 20, 30>>, <<255, 255, 255>>}
      [] OTHER -> {<<0, 0, 0, 0>>, <<255, 255, 255, 255>>,
                   <<10, 20, 30, 255>>}

\* frame pixels
FPal(color_depth) ==
    IF color_depth = PIXEL_DEPTH_U8 THEN {<<0>>, <<10>>}
    ELSE {<<0, 0, 0>>, <<10, 20, 30>>}

\* the bytes of an image of w x h pixels of bpp bytes each, rows stride apart
Layout(pix, w, h, bpp, stride, pad) ==
    [i \in 1..(stride * h) |->
        LET y == (i - 1) \div stride
            o == (i - 1) % stride
        IN IF o < w * bpp THEN pix[y * w + (o \div bpp) + 1][(o % bpp) + 1]
           ELSE pad]

Strides(min) == {min, min + MaxPad}

SqdiffCall(t, t_stride, f, f_stride, width_px, height_px, color_depth) ==
    [fn |-> "sqdiff", t |-> t, t_stride |-> t_stride, f |-> f,
     f_stride |-> f_stride, width_px |-> width_px, height_px |-> height_px,
     color_depth |-> color_depth]

\* c is a call that satisfies the assertions, of one of the layouts depths
ValidSqdiffCall(c, depths) ==
    \E d \in depths, s \in Shapes :
      \E tp \in [1..(s[1] * s[2]) -> TPal(d)],
         fp \in [1..(s[1] * s[2]) -> FPal(d)],
         ts \in Strides(s[1] * TBpp(d)),
         fs \in Strides(s[1] * FBpp(d)) :
        c = SqdiffCall(Layout(tp, s[1], s[2], TBpp(d), ts, PadByte), ts,
                       Layout(fp, s[1], s[2], FBpp(d), fs, PadByte), fs,
                       s[1], s[2], d)

\* c is a call at the edge of the contract: an image that may be empty, each
\* stride one byte short of a row, a row, or a row and MaxPad, a color_depth
\* that may be none of the four
BadDepths == {PIXEL_DEPTH_U8 - 1, PIXEL_DEPTH_BGRA + 1}

\* the buffers of those calls: all zero, as long as any image of the bounds
BadBufLen == (MaxW * 4 + MaxPad) * MaxH

EdgeSqdiffCall(c) ==
    \E w \in 0..MaxW, h \in 0..MaxH,
       d \in (PIXEL_DEPTH_U8..PIXEL_DEPTH_BGRA) \cup BadDepths :
      \E ts \in {w * TBpp(d) - 1, w * TBpp(d), w * TBpp(d) + MaxPad} \cap Nat,
         fs \in {w * FBpp(d) - 1, w * FBpp(d), w * FBpp(d) + MaxPad} \cap Nat :
        /\ w * h <= MaxPx
        /\ c = SqdiffCall([i \in 1..BadBufLen |-> 0], ts,
                          [i \in 1..BadBufLen |-> 0], fs, w, h, d)

(***************************************************************************)
(* Spec: one call of sqdiff, from the call to its return.                  *)
(***************************************************************************)
LpIdle == [pc |-> "idle"]

\* no element is running
ElementIdle == filter = Null /\ thread = Null /\ bus = Null /\ pushed = Null

AllDepths == PIXEL_DEPTH_U8..PIXEL_DEPTH_BGRA

Init ==
    /\ ValidSqdiffCall(call, AllDepths) \/ EdgeSqdiffCall(call)
    /\ ret = Null
    /\ out = <<>>
    /\ lp = LpIdle
    /\ ElementIdle

\* the call runs to its end: it returns, or an assertion aborts it.  A call
\* that overflowed a signed int has undefined behaviour: it returns what the
\* wrapped arithmetic gives, or it traps.
Call_sqdiff ==
    /\ call.fn = "sqdiff"
    /\ ret = Null
    /\ LET r == sqdiff(call.t, call.t_stride, call.f, call.f_stride,
                       call.width_px, call.height_px, call.color_depth)
       IN IF r.kind = "ok" /\ r.ub # {} THEN ret' \in {r, Crash}
          ELSE ret' = r
    /\ UNCHANGED <<call, out, lp>>
    /\ UNCHANGED elementVars

Next == Call_sqdiff

Spec == Init /\ [][Next]_vars

\* the same, for calls with a BGRA template only and a BGRx template only
InitBGRA ==
    /\ ValidSqdiffCall(call, {PIXEL_DEPTH_BGRA})
    /\ ret = Null
    /\ out = <<>>
    /\ lp = LpIdle
    /\ ElementIdle

SpecBGRA == InitBGRA /\ [][Next]_vars

InitBGRx ==
    /\ ValidSqdiffCall(call, {PIXEL_DEPTH_BGRx})
    /\ ret = Null
    /\ out = <<>>
    /\ lp = LpIdle
    /\ ElementIdle

SpecBGRx == InitBGRx /\ [][Next]_vars

(***************************************************************************)
(* What sqdiff is to compute, stated on the bytes of the two buffers.      *)
(***************************************************************************)
Channels(color_depth) == IF color_depth = PIXEL_DEPTH_U8 THEN 1 ELSE 3

\* byte k of pixel (x, y) of the template and of the frame of call c
TByte(c, x, y, k) == c.t[y * c.t_stride + x * TBpp(c.color_depth) + k + 1]
FByte(c, x, y, k) == c.f[y * c.f_stride + x * FBpp(c.color_depth) + k + 1]

\* pixel (x, y) takes part in the comparison
IsPresent(c, x, y) ==
    c.color_depth = PIXEL_DEPTH_BGRA => TByte(c, x, y, 3) = 255

Pixels(c) == (0..(c.width_px - 1)) \X (0..(c.height_px - 1))

\* the sum over the compared channels of the squared byte differences
ExactTotal(c) ==
    LET ch == Channels(c.color_depth)
        n == c.width_px * c.height_px * ch
        term(i) ==
            LET k == i % ch
                x == (i \div ch) % c.width_px
                y == (i \div ch) \div c.width_px
                d == TByte(c, x, y, k) - FByte(c, x, y, k)
            IN IF IsPresent(c, x, y) THEN d * d ELSE 0
        S[i \in 0..n] == IF i = 0 THEN 0 ELSE S[i - 1] + term(i - 1)
    IN S[n]

\* the number of compared channels
ExactCount(c) ==
    Channels(c.color_depth)
        * Cardinality({q \in Pixels(c) : IsPresent(c, q[1], q[2])})

Returned == ret.kind = "ok"

(***************************************************************************)
(* C1: whenever sqdiff returns, for each of the four layouts, total is the *)
(* sum over every compared channel of every compared pixel, row y read at  *)
(* byte offset y * stride of each buffer, of the squared difference of the *)
(* template byte and the frame byte.                                       *)
(***************************************************************************)
C1_TotalIsSumOfSquares ==
    Returned =>
        /\ ret.total[3] = 0 /\ ret.total[4] = 0
        /\ LimbVal(ret.total) = ExactTotal(call)

\* the 2x2 Gray8 example: [0,0,0,0] against [10,0,0,0] gives 100
C1_Witness ==
    /\ Returned
    /\ call.color_depth = PIXEL_DEPTH_U8
    /\ call.width_px = 2 /\ call.height_px = 2
    /\ call.t_stride = 2 /\ call.f_stride = 2
    /\ call.t = <<0, 0, 0, 0>> /\ call.f = <<10, 0, 0, 0>>
    /\ LimbVal(ret.total) = 100
    /\ LimbVal(ret.count) = 4

(***************************************************************************)
(* C5: for every layout, when the colour bytes of the template equal the   *)
(* bytes of the frame at every pixel, sqdiff returns total 0 and count the *)
(* number of channels that are not masked out.                             *)
(***************************************************************************)
SameColours(c) ==
    \A q \in Pixels(c) : \A k \in 0..(Channels(c.color_depth) - 1) :
        TByte(c, q[1], q[2], k) = FByte(c, q[1], q[2], k)

C5_IdenticalRegions ==
    (Returned /\ SameColours(call)) =>
        /\ ret.total = <<0, 0, 0, 0>>
        /\ ret.count = ToLimbs(ExactCount(call), 2)

\* identical regions of two pixels with 4-byte template pixels, one of them
\* holding colours other than 0, rows padded
C5_Witness ==
    /\ Returned /\ SameColours(call)
    /\ call.color_depth \in {PIXEL_DEPTH_BGRx, PIXEL_DEPTH_BGRA}
    /\ call.width_px * call.height_px >= 2
    /\ call.t_stride > call.width_px * 4
    /\ \E q \in Pixels(call) : FByte(call, q[1], q[2], 2) = 30
    /\ LimbVal(ret.count) > 0

(***************************************************************************)
(* C9: a call that violates the contract - an empty image, a frame stride  *)
(* below width*1 (U8) or width*3 (BGR, BGRx, BGRA), a template stride      *)
(* below width*1 (U8), width*3 (BGR) or width*4 (BGRx, BGRA), a            *)
(* color_depth that is none of the four - ends in an assertion failure and *)
(* never in a result.                                                      *)
(***************************************************************************)
ContractViolated(c) ==
    \/ c.width_px = 0
    \/ c.height_px = 0
    \/ c.color_depth \notin {PIXEL_DEPTH_U8, PIXEL_DEPTH_BGR,
                             PIXEL_DEPTH_BGRx, PIXEL_DEPTH_BGRA}
    \/ c.f_stride < c.width_px * (IF c.color_depth = PIXEL_DEPTH_U8
                                  THEN 1 ELSE 3)
    \/ c.t_stride < c.width_px * (CASE c.color_depth = PIXEL_DEPTH_U8 -> 1
                                    [] c.color_depth = PIXEL_DEPTH_BGR -> 3
                                    [] OTHER -> 4)

C9_ViolationAsserts ==
    (ret # Null /\ ContractViolated(call)) => ret = AssertFail

\* a BGRx call whose template stride covers 3 bytes a pixel but not 4
C9_Witness ==
    /\ ret = AssertFail
    /\ call.color_depth = PIXEL_DEPTH_BGRx
    /\ call.width_px > 0 /\ call.height_px > 0
    /\ call.f_stride >= call.width_px * 3
    /\ call.t_stride >= call.width_px * 3

(***************************************************************************)
(* Variations of a call, for the claims that compare two calls.            *)
(***************************************************************************)
\* what sqdiff returns for call c
Result(c) ==
    sqdiff(c.t, c.t_stride, c.f, c.f_stride, c.width_px, c.height_px,
           c.color_depth)

SameResult(r1, r2) ==
    r1.kind = r2.kind /\ r1.total = r2.total /\ r1.count = r2.count

\* call c with byte k of template pixel (x, y) set to v
WithTByte(c, x, y, k, v) ==
    [c EXCEPT !.t[y * c.t_stride + x * TBpp(c.color_depth) + k + 1] = v]

\* call c with byte k of every template pixel that satisfies sel set to v[k+1]
WithTPixels(c, sel(_, _), ks, v) ==
    [c EXCEPT !.t = [i \in 1..Len(c.t) |->
        LET y == (i - 1) \div c.t_stride
            o == (i - 1) % c.t_stride
            x == o \div TBpp(c.color_depth)
            k == o % TBpp(c.color_depth)
        IN IF x < c.width_px /\ k \in ks /\ sel(x, y) THEN v[k + 1]
           ELSE c.t[i]]]

\* the same for the frame
WithFPixels(c, sel(_, _), ks, v) ==
    [c EXCEPT !.f = [i \in 1..Len(c.f) |->
        LET y == (i - 1) \div c.f_stride
            o == (i - 1) % c.f_stride
            x == o \div FBpp(c.color_depth)
            k == o % FBpp(c.color_depth)
        IN IF x < c.width_px /\ k \in ks /\ sel(x, y) THEN v[k + 1]
           ELSE c.f[i]]]

\* the pixels of buffer m (rows stride apart, bpp bytes a pixel) laid out with
\* rows stride2 apart and the bytes between the rows set to pad
Relayout(m, w, h, bpp, stride, stride2, pad) ==
    [i \in 1..(stride2 * h) |->
        LET y == (i - 1) \div stride2
            o == (i - 1) % stride2
        IN IF o < w * bpp THEN m[y * stride + o + 1] ELSE pad]

(***************************************************************************)
(* C2: with a BGRA template, count is 3 times the number of template       *)
(* pixels whose 4th byte is exactly 255; setting the 4th byte of one such  *)
(* pixel to any other value lowers count by exactly 3, whatever the        *)
(* colours of the pixel; and count is 0 when every pixel is masked out.    *)
(***************************************************************************)
\* presence bytes other than 255: all of them for an image of one pixel,
\* these for the larger images
OtherAlphas(c) ==
    IF c.width_px * c.height_px = 1 THEN 0..254 ELSE {0, 128, 254}

PresentPixels(c) == {q \in Pixels(c) : TByte(c, q[1], q[2], 3) = 255}

C2_CountOfPresentPixels ==
    (Returned /\ call.color_depth = PIXEL_DEPTH_BGRA) =>
        /\ ret.count = ToLimbs(3 * Cardinality(PresentPixels(call)), 2)
        /\ \A q \in PresentPixels(call) : \A a \in OtherAlphas(call) :
              LET r == Result(WithTByte(call, q[1], q[2], 3, a))
              IN r.kind = "ok" /\ LimbVal(r.count) = LimbVal(ret.count) - 3

\* the scenario of the specification: [255,255,255,255, 0,0,0,0] against
\* [0,0,0, 0,0,0] gives total 195075 and count 3
C2_Witness ==
    /\ Returned
    /\ call.color_depth = PIXEL_DEPTH_BGRA
    /\ call.width_px = 2 /\ call.height_px = 1
    /\ call.t = <<255, 255, 255, 255, 0, 0, 0, 0>>
    /\ call.f = <<0, 0, 0, 0, 0, 0>>
    /\ LimbVal(ret.count) = 3
    /\ ret.total = ToLimbs(195075, 4)

(***************************************************************************)
(* C6: with a BGRA template, the result does not depend on the B, G, R     *)
(* bytes of a pixel whose presence byte is not 255, neither on those of    *)
(* the template nor on those of the frame at the same place: a call that   *)
(* differs only there returns the same total and the same count.           *)
(***************************************************************************)
\* colours put under the masked pixels: <<template colours, frame colours>>
MaskedColours ==
    { <<<<255, 255, 255>>, <<0, 0, 0>>>>,
      <<<<0, 0, 0>>, <<255, 255, 255>>>>,
      <<<<1, 2, 3>>, <<200, 100, 50>>>> }

IsMasked(c, x, y) == TByte(c, x, y, 3) # 255

C6_MaskedPixelsIgnored ==
    (Returned /\ call.color_depth = PIXEL_DEPTH_BGRA) =>
        \A v \in MaskedColours :
            LET masked(x, y) == IsMasked(call, x, y)
                c2 == WithFPixels(WithTPixels(call, masked, 0..2, v[1]),
                                  masked, 0..2, v[2])
            IN SameResult(Result(c2), ret)

\* a call with a present pixel that differs from the frame and a masked one
C6_Witness ==
    /\ Returned
    /\ call.color_depth = PIXEL_DEPTH_BGRA
    /\ \E q \in Pixels(call) : IsMasked(call, q[1], q[2])
    /\ \E q \in Pixels(call) : ~IsMasked(call, q[1], q[2])
    /\ LimbVal(ret.total) > 0

(***************************************************************************)
(* C7: with a BGRx template, sqdiff returns the total and the count that   *)
(* it returns for the same B, G, R values as a packed BGR template,        *)
(* whatever the 4th byte of each template pixel holds.                     *)
(***************************************************************************)
\* the BGR template of the colours of the BGRx template of c, rows tight
PackedCall(c) ==
    [c EXCEPT !.color_depth = PIXEL_DEPTH_BGR,
              !.t_stride = c.width_px * 3,
              !.t = [i \in 1..(c.width_px * 3 * c.height_px) |->
                        TByte(c, ((i - 1) \div 3) % c.width_px,
                                 ((i - 1) \div 3) \div c.width_px,
                                 (i - 1) % 3)]]

FourthBytes == {0, 1, 254, 255}

C7_BGRxAsBGR ==
    (Returned /\ call.color_depth = PIXEL_DEPTH_BGRx) =>
        /\ SameResult(Result(PackedCall(call)), ret)
        /\ \A b \in FourthBytes :
              LET any(x, y) == TRUE
              IN SameResult(
                    Result(WithTPixels(call, any, {3}, <<0, 0, 0, b>>)), ret)

\* a BGRx call of several pixels with differing colours and 4th bytes
C7_Witness ==
    /\ Returned
    /\ call.color_depth = PIXEL_DEPTH_BGRx
    /\ call.width_px = 2
    /\ TByte(call, 0, 0, 3) # TByte(call, 1, 0, 3)
    /\ LimbVal(ret.total) > 0

(***************************************************************************)
(* C8: the result depends only on the first width * bytes-per-pixel bytes  *)
(* of each row, row y at y * stride of its own buffer: other bytes between *)
(* the rows, or the same pixels laid out with a larger stride on either    *)
(* side, give the same total and the same count.                           *)
(***************************************************************************)
\* <<bytes added to the template stride, to the frame stride, padding byte>>
Relayouts == { <<0, 0, 0>>, <<1, 0, 255>>, <<0, 2, 0>>, <<2, 1, 255>> }

RelaidCall(c, v) ==
    [c EXCEPT !.t = Relayout(c.t, c.width_px, c.height_px,
                             TBpp(c.color_depth), c.t_stride,
                             c.t_stride + v[1], v[3]),
              !.t_stride = c.t_stride + v[1],
              !.f = Relayout(c.f, c.width_px, c.height_px,
                             FBpp(c.color_depth), c.f_stride,
                             c.f_stride + v[2], v[3]),
              !.f_stride = c.f_stride + v[2]]

C8_OnlyRowBytesCount ==
    Returned => \A v \in Relayouts : SameResult(Result(RelaidCall(call, v)), ret)

\* a call of two rows, both buffers with bytes between the rows
C8_Witness ==
    /\ Returned
    /\ call.height_px = 2
    /\ call.t_stride > call.width_px * TBpp(call.color_depth)
    /\ call.f_stride > call.width_px * FBpp(call.color_depth)
    /\ LimbVal(ret.total) > 0

(***************************************************************************)
(* SpecLoop: sqdiff at the full width of its uint16_t arguments, one       *)
(* iteration of its loops a step.  The images are uniform: every template  *)
(* pixel holds the bytes tpx and every frame pixel the bytes fpx, so every *)
(* row holds the same bytes and the row helper, a function of the bytes of *)
(* the row alone, returns for every row what it returned for the first:    *)
(* the iterations of the helper are steps for row 0 only, and its result   *)
(* (lp.row) is what the later rows add.                                    *)
(*                                                                         *)
(* A signed int overflow (width_px * height_px [* 3], y * stride) is       *)
(* undefined behaviour: the call traps (pc = "crash") or goes on with the  *)
(* wrapped value; a row read at a wrapped offset is read as one more row   *)
(* of the same bytes, which for the images below are those with the        *)
(* largest difference and the largest count.                               *)
(***************************************************************************)
\* the heights of the calls: the largest, and the largest for which, with
\* strides of UINT16_MAX, no int overflows
HalfHeight == TwoTo15

LoopCall(d, w, h, ts, fs, tpx, fpx) ==
    [pc |-> "call", color_depth |-> d, width_px |-> w, height_px |-> h,
     t_stride |-> ts, f_stride |-> fs, tpx |-> tpx, fpx |-> fpx,
     o |-> Null, y |-> 0, n |-> 0, len |-> 0, acc |-> RowInit, row |-> Null]

\* the widest image the assertions accept
MaxWidth(d) == UINT16_MAX \div TBpp(d)

\* the template pixel and the frame pixel that differ most, and a pair that
\* differs the other way, the template pixel masked out when it can be
FarPixels(d) ==
    { <<[k \in 1..TBpp(d) |-> 255], [k \in 1..FBpp(d) |-> 0]>>,
      <<[k \in 1..TBpp(d) |-> 0], [k \in 1..FBpp(d) |-> 255]>> }

LoopCalls ==
    UNION { { LoopCall(d, MaxWidth(d), UINT16_MAX, UINT16_MAX, UINT16_MAX,
                       [k \in 1..TBpp(d) |-> 255], [k \in 1..FBpp(d) |-> 0]),
              LoopCall(d, MaxWidth(d), HalfHeight, UINT16_MAX, UINT16_MAX,
                       [k \in 1..TBpp(d) |-> 255], [k \in 1..FBpp(d) |-> 0]) }
            \cup { LoopCall(d, w, 2, UINT16_MAX, UINT16_MAX, px[1], px[2]) :
                     w \in {1, 2, (MaxWidth(d) + 1) % TwoTo16},
                     px \in FarPixels(d) } :
            d \in AllDepths }

InitLoop ==
    /\ call = Null
    /\ ret = Null
    /\ out = <<>>
    /\ lp \in LoopCalls
    /\ ElementIdle

\* the entry of sqdiff: the assertions and the assignment of out.count
L_Enter ==
    /\ lp.pc = "call"
    /\ IF ~sqdiff_asserts(lp.t_stride, lp.f_stride, lp.width_px,
                          lp.height_px, lp.color_depth)
       THEN lp' = [lp EXCEPT !.pc = "abort"]
       ELSE LET c == sqdiff_count_init(lp.width_px, lp.height_px,
                                       lp.color_depth)
                o == [kind |-> "ok", total |-> <<0, 0, 0, 0>>,
                      count |-> c.val, wrap |-> FALSE, ub |-> CountUB(c)]
            IN \/ lp' = [lp EXCEPT !.pc = "rows", !.o = o, !.y = 0]
               \/ c.ub /\ lp' = [lp EXCEPT !.pc = "crash", !.o = o]
    /\ UNCHANGED <<call, ret, out>>
    /\ UNCHANGED elementVars

\* the row helper is called for row 0
L_RowCall ==
    /\ lp.pc = "rows"
    /\ lp.y < lp.height_px
    /\ lp.row = Null
    /\ LET l == sqdiff_row_len(lp.width_px, lp.color_depth)
       IN lp' = [lp EXCEPT !.pc = "row", !.len = U16(l), !.n = 0,
                           !.acc = RowInit,
                           !.o.wrap = @ \/ U16(l) # l]
    /\ UNCHANGED <<call, ret, out>>
    /\ UNCHANGED elementVars

\* the body of the row helper's loop, on pixel or byte n of the row
LoopBody(acc, d, tpx, fpx, n) ==
    CASE d = PIXEL_DEPTH_U8 -> U8_body(acc, tpx[1], fpx[1])
      [] d = PIXEL_DEPTH_BGR -> U8_body(acc, tpx[(n % 3) + 1], fpx[(n % 3) + 1])
      [] d = PIXEL_DEPTH_BGRx -> BGRx_body(acc, tpx, 0, fpx, 0)
      [] OTHER -> BGRA_body(acc, tpx, 0, fpx, 0)

L_Body ==
    /\ lp.pc = "row"
    /\ lp.n < lp.len
    /\ lp' = [lp EXCEPT !.acc = LoopBody(lp.acc, lp.color_depth, lp.tpx,
                                         lp.fpx, lp.n),
                        !.n = U16(lp.n + 1)]
    /\ UNCHANGED <<call, ret, out>>
    /\ UNCHANGED elementVars

\* the row helper returns for row 0
L_RowReturn ==
    /\ lp.pc = "row"
    /\ lp.n >= lp.len
    /\ lp' = [lp EXCEPT !.pc = "rows", !.row = lp.acc,
                        !.o = RowReturn(lp.o, lp.color_depth, lp.acc),
                        !.y = U16(lp.y + 1)]
    /\ UNCHANGED <<call, ret, out>>
    /\ UNCHANGED elementVars

\* the row helper is called for a later row and returns
L_RowRepeat ==
    /\ lp.pc = "rows"
    /\ lp.y < lp.height_px
    /\ lp.row # Null
    /\ LET ub == OffsetUB(lp.y, lp.t_stride, lp.f_stride)
           o == [RowReturn(lp.o, lp.color_depth, lp.row)
                    EXCEPT !.ub = @ \cup ub]
       IN \/ lp' = [lp EXCEPT !.o = o, !.y = U16(lp.y + 1)]
          \/ ub # {} /\ lp' = [lp EXCEPT !.pc = "crash", !.o.ub = @ \cup ub]
    /\ UNCHANGED <<call, ret, out>>
    /\ UNCHANGED elementVars

\* the loop over the rows ends and sqdiff returns
L_Return ==
    /\ lp.pc = "rows"
    /\ lp.y >= lp.height_px
    /\ lp' = [lp EXCEPT !.pc = "done",
                        !.o = sqdiff_count_final(lp.o, lp.color_depth)]
    /\ UNCHANGED <<call, ret, out>>
    /\ UNCHANGED elementVars

NextLoop ==
    \/ L_Enter
    \/ L_RowCall
    \/ L_Body
    \/ L_RowReturn
    \/ L_RowRepeat
    \/ L_Return

SpecLoop == InitLoop /\ [][NextLoop]_vars

(***************************************************************************)
(* C3: the accumulation of sqdiff is overflow-safe.  For every width,      *)
(* height and stride that the assertions accept and any pixel values, no   *)
(* value of the accumulation wraps around: not the 16-bit square of a      *)
(* channel difference, not the 32-bit partial sum of a row, not the 16-bit *)
(* count of present pixels of a row, not the row length width_px * 3       *)
(* passed as a 16-bit argument, not the 64-bit total (and not the 32-bit   *)
(* count that the BGRA rows add up and that is multiplied by 3).           *)
(***************************************************************************)
C3_NoWrap ==
    /\ ~lp.acc.wrap
    /\ lp.row # Null => ~lp.row.wrap
    /\ lp.o # Null => ~lp.o.wrap

\* the widest Gray8 image, 32768 rows of it, every byte differing by 255:
\* the partial sum of a row reached 65535 * 65025, the total 32768 times that,
\* and no signed operation overflowed on the way
C3_Witness ==
    /\ lp.pc = "done"
    /\ lp.color_depth = PIXEL_DEPTH_U8
    /\ lp.width_px = UINT16_MAX /\ lp.height_px = HalfHeight
    /\ lp.row.this_total = <<511, 65024>>
    /\ lp.o.total = <<32768, 255, 32512, 0>>
    /\ lp.o.count = <<32768, 32767>>
    /\ lp.o.ub = {}

(***************************************************************************)
(* C4: for the layouts without masking, count is width * height (Gray8)    *)
(* and width * height * 3 (Packed24, Padded32) for every width and height  *)
(* that the assertions accept, the product computed without wrap-around of *)
(* the arithmetic used and representable in the unsigned 32-bit count.     *)
(***************************************************************************)
\* limbs twice x, and x + y, without loss (3 limbs)
Limbs3Add(x, y) ==
    LET s1 == x[1] + y[1]
        s2 == x[2] + y[2] + (s1 \div TwoTo16)
        s3 == x[3] + y[3] + (s2 \div TwoTo16)
    IN <<s1 % TwoTo16, s2 % TwoTo16, s3>>

\* the product a * b of two naturals below 2^16, by doubling
RECURSIVE ExactProduct(_, _)
ExactProduct(a, b) ==
    IF b = 0 THEN <<0, 0, 0>>
    ELSE LET half == ExactProduct(a, b \div 2)
             twice == Limbs3Add(half, half)
         IN IF b % 2 = 1 THEN Limbs3Add(twice, <<a, 0, 0>>) ELSE twice

\* width_px * height_px * channels
ExactChannels(w, h, d) ==
    LET p == ExactProduct(w, h)
    IN IF Channels(d) = 1 THEN p ELSE Limbs3Add(Limbs3Add(p, p), p)

C4_CountIsProduct ==
    (lp.pc \in {"rows", "row", "done", "crash"}
        /\ lp.color_depth # PIXEL_DEPTH_BGRA) =>
        /\ "count" \notin lp.o.ub
        /\ <<lp.o.count[1], lp.o.count[2], 0>>
              = ExactChannels(lp.width_px, lp.height_px, lp.color_depth)

(***************************************************************************)
(* sqdiff.c: threshold_diff_bgr.  threshold_sq is a uint32_t (2 limbs).    *)
(***************************************************************************)
\* x >= y of two uint32_t
UGe(x, y) == x[2] > y[2] \/ (x[2] = y[2] /\ x[1] >= y[1])

\* mutation: the comparison is the wrong way round
BGR_line_body_below(a, ao, b, bo, threshold_sq) ==
    LET diff_b == I16(Rd(a, ao) - Rd(b, bo))
        diff_g == I16(Rd(a, ao + 1) - Rd(b, bo + 1))
        diff_r == I16(Rd(a, ao + 2) - Rd(b, bo + 2))
        sq == diff_b * diff_b + diff_g * diff_g + diff_r * diff_r
    IN IF UGe(threshold_sq, ToLimbs(sq, 2)) THEN 1 ELSE 0

\* body of the loop of threshold_diff_BGR_line: the byte written to out[0]
BGR_line_body(a, ao, b, bo, threshold_sq) ==
    LET diff_b == I16(Rd(a, ao) - Rd(b, bo))
        diff_g == I16(Rd(a, ao + 1) - Rd(b, bo + 1))
        diff_r == I16(Rd(a, ao + 2) - Rd(b, bo + 2))
        sq == diff_b * diff_b + diff_g * diff_g + diff_r * diff_r
    IN IF UGe(ToLimbs(sq, 2), threshold_sq) THEN 1 ELSE 0

RECURSIVE BGR_line_loop(_, _, _, _, _, _, _, _, _)
BGR_line_loop(o, oo, a, ao, b, bo, len_px, threshold_sq, n) ==
    IF n < len_px
    THEN BGR_line_loop(
            [o EXCEPT ![oo + 1] = BGR_line_body(a, ao, b, bo, threshold_sq)],
            oo + 1, a, ao + 3, b, bo + 3, len_px, threshold_sq, U16(n + 1))
    ELSE o

\* threshold_diff_BGR_line(o + oo, a + ao, b + bo, len_px, threshold_sq):
\* the memory of o afterwards
threshold_diff_BGR_line(o, oo, a, ao, b, bo, len_px, threshold_sq) ==
    BGR_line_loop(o, oo, a, ao, b, bo, len_px, threshold_sq, 0)

\* mutation: out advances by the stride of a, not by the width of the map
RECURSIVE bgr_rows_outstride(_, _, _, _, _, _, _, _, _, _, _, _)
bgr_rows_outstride(o, oo, a, ao, line_stride_a, b, bo, line_stride_b, threshold_sq, width_px, height_px, y) ==
    IF y < height_px
    THEN bgr_rows_outstride(
            threshold_diff_BGR_line(o, oo, a, ao, b, bo, width_px,
                                    threshold_sq),
            oo + line_stride_a, a, ao + line_stride_a, line_stride_a,
            b, bo + line_stride_b, line_stride_b, threshold_sq, width_px,
            height_px, U16(y + 1))
    ELSE o

\* the loop over the rows of threshold_diff_bgr, at row y: out points at
\* o + oo, a at a + ao, b at b + bo
RECURSIVE bgr_rows(_, _, _, _, _, _, _, _, _, _, _, _)
bgr_rows(o, oo, a, ao, line_stride_a, b, bo, line_stride_b, threshold_sq, width_px, height_px, y) ==
    IF y < height_px
    THEN bgr_rows(
            threshold_diff_BGR_line(o, oo, a, ao, b, bo, width_px,
                                    threshold_sq),
            oo + width_px, a, ao + line_stride_a, line_stride_a,
            b, bo + line_stride_b, line_stride_b, threshold_sq, width_px,
            height_px, U16(y + 1))
    ELSE o

\* the memory of o after threshold_diff_bgr(o, a, line_stride_a, b,
\* line_stride_b, threshold_sq, width_px, height_px)
threshold_diff_bgr(o, a, line_stride_a, b, line_stride_b, threshold_sq, width_px, height_px) ==
    bgr_rows(o, 0, a, 0, line_stride_a, b, 0, line_stride_b, threshold_sq,
             width_px, height_px, 0)

(***************************************************************************)
(* SpecThreshold: one call of threshold_diff_bgr on two BGR images of at   *)
(* most MaxPx pixels (an empty image among them).  The memory of out is    *)
(* the width_px * height_px bytes of the map and GuardLen bytes after      *)
(* them, all holding OutFill before the call.                              *)
(***************************************************************************)
OutFill == 7

GuardLen == MaxH * (MaxW * 3 + MaxPad)

APal == {<<10, 10, 10>>, <<255, 255, 255>>, <<10, 20, 30>>}

BPal == {<<0, 0, 0>>, <<10, 20, 30>>}

UINT32_MAX == <<UINT16_MAX, UINT16_MAX>>

Thresholds ==
    {ToLimbs(v, 2) : v \in {0, 250, 300, 301, 400, 1400}} \cup {UINT32_MAX}

Shapes0 == {s \in (0..MaxW) \X (0..MaxH) : s[1] * s[2] <= MaxPx}

ThresholdCall(c) ==
    \E s \in Shapes0 :
      \E ap \in [1..(s[1] * s[2]) -> APal],
         bp \in [1..(s[1] * s[2]) -> BPal],
         sa \in Strides(s[1] * 3),
         sb \in Strides(s[1] * 3),
         th \in Thresholds :
        c = [fn |-> "threshold_diff_bgr",
             a |-> Layout(ap, s[1], s[2], 3, sa, PadByte), line_stride_a |-> sa,
             b |-> Layout(bp, s[1], s[2], 3, sb, PadByte), line_stride_b |-> sb,
             threshold_sq |-> th, width_px |-> s[1], height_px |-> s[2]]

InitThreshold ==
    /\ ThresholdCall(call)
    /\ ret = Null
    /\ out = [i \in 1..(call.width_px * call.height_px + GuardLen) |-> OutFill]
    /\ lp = LpIdle
    /\ ElementIdle

Call_threshold_diff_bgr ==
    /\ call.fn = "threshold_diff_bgr"
    /\ ret = Null
    /\ out' = threshold_diff_bgr(out, call.a, call.line_stride_a,
                                 call.b, call.line_stride_b,
                                 call.threshold_sq, call.width_px,
                                 call.height_px)
    /\ ret' = [kind |-> "void"]
    /\ UNCHANGED <<call, lp>>
    /\ UNCHANGED elementVars

NextThreshold == Call_threshold_diff_bgr

SpecThreshold == InitThreshold /\ [][NextThreshold]_vars

(***************************************************************************)
(* C10: threshold_diff_bgr writes, for every pixel (x, y) with x < width   *)
(* and y < height, out[y * width + x] = 1 iff                              *)
(* (a.b-b.b)^2 + (a.g-b.g)^2 + (a.r-b.r)^2 >= threshold_sq and 0           *)
(* otherwise, row y of a and of b read at y * its own stride; it writes    *)
(* those width * height bytes, each 0 or 1, and nothing else.              *)
(***************************************************************************)
\* the squared distance of pixel (x, y) of a and of b
SquaredDistance(c, x, y) ==
    LET d(k) == c.a[y * c.line_stride_a + x * 3 + k + 1]
                    - c.b[y * c.line_stride_b + x * 3 + k + 1]
    IN d(0) * d(0) + d(1) * d(1) + d(2) * d(2)

\* v >= th, th a uint32_t given by its limbs, v an int below 2^31
AtLeast(v, th) ==
    \/ th[2] < v \div TwoTo16
    \/ th[2] = v \div TwoTo16 /\ th[1] <= v % TwoTo16

MapUnder(c, th) ==
    threshold_diff_bgr([i \in 1..(c.width_px * c.height_px + GuardLen) |-> OutFill], c.a, c.line_stride_a, c.b, c.line_stride_b, th, c.width_px, c.height_px)

C11_Monotonic ==
    ret.kind = "void" =>
        \A t1 \in Thresholds :
            UGe(call.threshold_sq, t1) =>
                \A i \in 1..(call.width_px * call.height_px) :
                    out[i] = 1 => MapUnder(call, t1)[i] = 1

\* a map of two pixels with threshold_sq 400, one pixel 1 and one 0; under
\* the lower threshold 250 the 0 has become 1
C11_Witness ==
    /\ ret.kind = "void"
    /\ call.width_px * call.height_px = 2
    /\ call.threshold_sq = ToLimbs(400, 2)
    /\ out[1] = 1 /\ out[2] = 0
    /\ MapUnder(call, ToLimbs(250, 2))[1] = 1
    /\ MapUnder(call, ToLimbs(250, 2))[2] = 1

(***************************************************************************)
(* C12: as the comment above threshold_diff_bgr says, the output pixel is  *)
(* 1 if the square difference of the two pixels is greater than            *)
(* threshold_sq and 0 otherwise: a square difference equal to threshold_sq *)
(* gives 0.                                                                *)
(***************************************************************************)
C12_GreaterThan ==
    ret.kind = "void" =>
        \A x \in 0..(call.width_px - 1) : \A y \in 0..(call.height_px - 1) :
            out[y * call.width_px + x + 1] =
                IF AtLeast(SquaredDistance(call, x, y), call.threshold_sq)
                   /\ ToLimbs(SquaredDistance(call, x, y), 2) # call.threshold_sq
                THEN 1 ELSE 0

(***************************************************************************)
(* gsttemplatematch.c, gstmotiondetect.c: gfloat arithmetic.  A gfloat of  *)
(* [0, 1] is the natural x with value x / FltOne, FltOne = 2^26: every     *)
(* float of [1/8, 1] and 0 is such a value.  Every operation rounds its    *)
(* exact result to the 24 significant bits of a float, ties to even, as    *)
(* IEEE single precision does.                                             *)
(***************************************************************************)
FltOne == TwoTo16 * 1024

RECURSIVE BitLen(_)
BitLen(v) == IF v = 0 THEN 0 ELSE 1 + BitLen(v \div 2)

RECURSIVE Pow2(_)
Pow2(k) == IF k = 0 THEN 1 ELSE 2 * Pow2(k - 1)

\* the float nearest to v / FltOne
RoundToFloat(v) ==
    IF BitLen(v) <= 24 THEN v
    ELSE LET ulp == Pow2(BitLen(v) - 24)
             q == v \div ulp
             r == v % ulp
         IN IF 2 * r > ulp \/ (2 * r = ulp /\ q % 2 = 1)
            THEN (q + 1) * ulp ELSE q * ulp

\* 1 - x
FloatOneMinus(x) == RoundToFloat(FltOne - x)

\* mutation: the product is rounded to the nearest integer
FloatTimes255ToInt_round(x) ==
    (((x \div 8192) * 255) + (((x % 8192) * 255) \div 8192) + 4096) \div 8192

\* (int)(x * 255): the exact product is i + f / FltOne; rounded to a float
\* it reaches i + 1 when f is within half an ulp of FltOne
FloatTimes255ToInt(x) ==
    LET a == (x \div 8192) * 255
        b == (x % 8192) * 255
        c == a + (b \div 8192)
        i == c \div 8192
        f == ((c % 8192) * 8192) + (b % 8192)
        bits == IF i > 0 THEN 26 + BitLen(i) ELSE BitLen(f)
        halfulp == IF bits > 24 THEN Pow2(bits - 25) ELSE 0
    IN IF halfulp > 0 /\ f >= FltOne - halfulp THEN i + 1 ELSE i

\* DEFAULT_CONFIRM_THRESHOLD 0.16f and DEFAULT_NOISE_THRESHOLD 0.84f
DEFAULT_CONFIRM_THRESHOLD == 10737418
DEFAULT_NOISE_THRESHOLD == 56371444

(***************************************************************************)
(* gsttemplatematch.c: the confirm step.  An IplImage is a record of its   *)
(* width, its height and its pixels in row-major order: bytes for a        *)
(* 1-channel image, <<b, g, r>> for a 3-channel one.  The OpenCV calls are *)
(* modelled as OpenCV defines them for 8-bit images.                       *)
(***************************************************************************)
GST_TM_CONFIRM_METHOD_NONE == 0
GST_TM_CONFIRM_METHOD_ABSDIFF == 1
GST_TM_CONFIRM_METHOD_NORMED_ABSDIFF == 2

Image(width, height, data) ==
    [width |-> width, height |-> height, data |-> data]

\* the pixel of a BGR image converted by cvCvtColor (.., CV_BGR2GRAY)
BGR2GRAY(px) ==
    (px[1] * 1868 + px[2] * 9617 + px[3] * 4899 + 8192) \div 16384

\* cvSetImageROI (input, cvRect (x, y, width, height)) and
\* cvCvtColor (input, inputROIGray, CV_BGR2GRAY)
cvCvtColorROI(input, x, y, width, height) ==
    Image(width, height,
          [i \in 1..(width * height) |->
              BGR2GRAY(input.data[(y + ((i - 1) \div width)) * input.width
                                  + x + ((i - 1) % width) + 1])])

\* cvCvtColor (image, gray, CV_BGR2GRAY) of a whole image
cvCvtColor(image) ==
    cvCvtColorROI(image, 0, 0, image.width, image.height)

\* cvAbsDiff (a, b, dst)
cvAbsDiff(a, b) ==
    Image(a.width, a.height,
          [i \in 1..(a.width * a.height) |->
              IF a.data[i] >= b.data[i] THEN a.data[i] - b.data[i]
              ELSE b.data[i] - a.data[i]])

\* mutation: the pixels that reach the threshold are set too
cvThreshold_reach(src, threshold, max_value) ==
    Image(src.width, src.height,
          [i \in 1..(src.width * src.height) |->
              IF src.data[i] >= threshold THEN max_value ELSE 0])

\* cvThreshold (src, dst, threshold, max_value, CV_THRESH_BINARY)
cvThreshold(src, threshold, max_value) ==
    Image(src.width, src.height,
          [i \in 1..(src.width * src.height) |->
              IF src.data[i] > threshold THEN max_value ELSE 0])

\* the elements of cvCreateStructuringElementEx (3, 3, 1, 1,
\* CV_SHAPE_ELLIPSE, NULL) as offsets from the anchor: the middle row and
\* the middle column
Kernel == {<<0, 0>>, <<-1, 0>>, <<1, 0>>, <<0, -1>>, <<0, 1>>}

\* one pass of cvErode: the minimum over the kernel; the pixels outside the
\* image do not count
Erode1(src) ==
    Image(src.width, src.height,
          [i \in 1..(src.width * src.height) |->
              LET x == (i - 1) % src.width
                  y == (i - 1) \div src.width
                  under == {src.data[(y + k[2]) * src.width + x + k[1] + 1] :
                               k \in {k \in Kernel :
                                        /\ x + k[1] \in 0..(src.width - 1)
                                        /\ y + k[2] \in 0..(src.height - 1)}}
              IN CHOOSE v \in under : \A u \in under : v <= u])

\* mutation: one pass more than asked for
RECURSIVE cvErode_once_more(_, _)
cvErode_once_more(src, iterations) ==
    IF iterations < 0 THEN src
    ELSE cvErode_once_more(Erode1(src), iterations - 1)

\* cvErode (src, dst, kernel, iterations)
RECURSIVE cvErode(_, _)
cvErode(src, iterations) ==
    IF iterations <= 0 THEN src ELSE cvErode(Erode1(src), iterations - 1)

\* cvCountNonZero (image)
cvCountNonZero(image) ==
    Cardinality({i \in 1..(image.width * image.height) : image.data[i] # 0})

\* int threshold = (int)(confirmThreshold * 255)
confirm_threshold(confirmThreshold) == FloatTimes255ToInt(confirmThreshold)

\* gst_templatematch_confirm_absdiff: what it returns and what it leaves in
\* inputROIGray
gst_templatematch_confirm_absdiff(input, templateGray, confirmThreshold, bestPos, erodePasses) ==
    LET threshold == confirm_threshold(confirmThreshold)
        inputROIGray == cvCvtColorROI(input, bestPos[1], bestPos[2], templateGray.width, templateGray.height)
        absdiff == cvAbsDiff(inputROIGray, templateGray)
        binary == cvThreshold(absdiff, threshold, 255)
        cvAbsDiffImage == cvErode(binary, erodePasses)
    IN [confirmed |-> cvCountNonZero(cvAbsDiffImage) = 0,
        inputROIGray |-> cvAbsDiffImage]


\* mutation: the values are rescaled to [0, 254]
cvNormalize_254(src) ==
    LET vals == {src.data[i] : i \in 1..(src.width * src.height)}
        smin == CHOOSE v \in vals : \A u \in vals : v <= u
        smax == CHOOSE v \in vals : \A u \in vals : v >= u
        range == smax - smin
    IN Image(src.width, src.height,
             [i \in 1..(src.width * src.height) |->
                 IF range = 0 THEN 0 ELSE (2 * (src.data[i] - smin) * 254 + range) \div (2 * range)])

\* cvNormalize (src, dst, 0, 255, CV_MINMAX, CV_8UC1): the values rescaled
\* from [min, max] to [0, 255] and rounded, ties to even; an image of one
\* value becomes 0
cvNormalize(src) ==
    LET vals == {src.data[i] : i \in 1..(src.width * src.height)}
        smin == CHOOSE v \in vals : \A u \in vals : v <= u
        smax == CHOOSE v \in vals : \A u \in vals : v >= u
        range == smax - smin
        scaled(v) ==
            LET n == (v - smin) * 255
                q == n \div range
                r == n % range
            IN IF 2 * r > range \/ (2 * r = range /\ q % 2 = 1)
               THEN q + 1 ELSE q
    IN Image(src.width, src.height,
             [i \in 1..(src.width * src.height) |->
                 IF range = 0 THEN 0 ELSE scaled(src.data[i])])

\* gst_templatematch_confirm_normed_absdiff
gst_templatematch_confirm_normed_absdiff(input, templateGray, confirmThreshold, bestPos, erodePasses) ==
    LET threshold == confirm_threshold(confirmThreshold)
        inputROIGray == cvCvtColorROI(input, bestPos[1], bestPos[2], templateGray.width, templateGray.height)
        inputROIGrayNormalized == cvNormalize(inputROIGray)
        templateGrayNormalized == cvNormalize(templateGray)
        absdiff == cvAbsDiff(inputROIGrayNormalized, templateGrayNormalized)
        binary == cvThreshold(absdiff, threshold, 255)
        cvAbsDiffImage == cvErode(binary, erodePasses)
    IN [confirmed |-> cvCountNonZero(cvAbsDiffImage) = 0,
        inputROIGray |-> cvAbsDiffImage]

\* mutation: the case of GST_TM_CONFIRM_METHOD_NONE falls through to the
\* next one
gst_templatematch_confirm_fallthrough(inputROIGray, input, templateGray, confirmThreshold, bestPos, method, erodePasses) ==
    CASE method \in {GST_TM_CONFIRM_METHOD_NONE, GST_TM_CONFIRM_METHOD_ABSDIFF} ->
            gst_templatematch_confirm_absdiff(input, templateGray, confirmThreshold, bestPos, erodePasses)
      [] method = GST_TM_CONFIRM_METHOD_NORMED_ABSDIFF ->
            gst_templatematch_confirm_normed_absdiff(input, templateGray, confirmThreshold, bestPos, erodePasses)

\* gst_templatematch_confirm: what it returns and what it leaves in
\* inputROIGray
gst_templatematch_confirm(inputROIGray, input, templateGray, confirmThreshold, bestPos, method, erodePasses) ==
    CASE method = GST_TM_CONFIRM_METHOD_NONE ->
            [confirmed |-> TRUE, inputROIGray |-> inputROIGray]
      [] method = GST_TM_CONFIRM_METHOD_ABSDIFF ->
            gst_templatematch_confirm_absdiff(input, templateGray, confirmThreshold, bestPos, erodePasses)
      [] method = GST_TM_CONFIRM_METHOD_NORMED_ABSDIFF ->
            gst_templatematch_confirm_normed_absdiff(input, templateGray, confirmThreshold, bestPos, erodePasses)

(***************************************************************************)
(* SpecConfirm: one call of gst_templatematch_confirm.  The template is of *)
(* one colour; each pixel of the frame region under it holds that colour   *)
(* or one other colour, lighter or darker; the frame is the region alone   *)
(* or is one column and one row larger on each side taken together, the    *)
(* pixels around the region holding MarginPixel.                           *)
(***************************************************************************)
MaxTW == 3
MaxTH == 3
MaxTPx == 9
MaxErode == 2

TemplatePixel == <<100, 100, 100>>

\* colours of grey 140, 141 and 60
OtherPixels == {<<0, 200, 76>>, <<0, 200, 78>>, <<60, 60, 60>>}

MarginPixel == <<7, 7, 7>>

\* 0.0f, 0.16f and 1.0f
ConfirmThresholds == {0, DEFAULT_CONFIRM_THRESHOLD, FltOne}

ConfirmMethods == GST_TM_CONFIRM_METHOD_NONE..GST_TM_CONFIRM_METHOD_NORMED_ABSDIFF

TShapes == {s \in (1..MaxTW) \X (1..MaxTH) : s[1] * s[2] <= MaxTPx}

\* the frame of m more columns and rows than the w * h region at (x, y),
\* the pixels of the region those of differ holding other
Frame(w, h, m, x, y, differ, other) ==
    Image(w + m, h + m,
          [i \in 1..((w + m) * (h + m)) |->
              LET fx == ((i - 1) % (w + m)) - x
                  fy == ((i - 1) \div (w + m)) - y
              IN IF fx \in 0..(w - 1) /\ fy \in 0..(h - 1)
                 THEN IF (fy * w + fx + 1) \in differ THEN other
                      ELSE TemplatePixel
                 ELSE MarginPixel])

ConfirmCall(c, methods, shapes) ==
    \E s \in shapes, m \in 0..1, other \in OtherPixels,
       th \in ConfirmThresholds, method \in methods,
       erodePasses \in 0..MaxErode :
      \E differ \in SUBSET (1..(s[1] * s[2])), pos \in {<<0, 0>>, <<m, m>>} :
        c = [fn |-> "confirm",
             input |-> Frame(s[1], s[2], m, pos[1], pos[2], differ, other),
             templateGray |-> cvCvtColor(Image(s[1], s[2], [i \in 1..(s[1] * s[2]) |-> TemplatePixel])),
             confirmThreshold |-> th, bestPos |-> pos, method |-> method,
             erodePasses |-> erodePasses]

\* filter->cvImageROIGray as cvCreateImage leaves it: of the size of the
\* template
ROIGrayFill == 9

\* the shapes of SpecConfirm: those of at most MaxPx pixels
SmallTShapes == {s \in TShapes : s[1] * s[2] <= MaxPx}

InitConfirm ==
    /\ ConfirmCall(call, ConfirmMethods, SmallTShapes)
    /\ ret = Null
    /\ out = Image(call.templateGray.width, call.templateGray.height,
                   [i \in 1..(call.templateGray.width * call.templateGray.height) |-> ROIGrayFill])
    /\ lp = LpIdle
    /\ ElementIdle

Call_confirm ==
    /\ call.fn = "confirm"
    /\ ret = Null
    /\ LET r == gst_templatematch_confirm(out, call.input, call.templateGray, call.confirmThreshold, call.bestPos, call.method, call.erodePasses)
       IN /\ ret' = [kind |-> "bool", val |-> r.confirmed]
          /\ out' = r.inputROIGray
    /\ UNCHANGED <<call, lp>>
    /\ UNCHANGED elementVars

NextConfirm == Call_confirm

SpecConfirm == InitConfirm /\ [][NextConfirm]_vars

\* SpecAbsDiff: the calls with method GST_TM_CONFIRM_METHOD_ABSDIFF, on
\* every shape of TShapes
InitAbsDiff ==
    /\ ConfirmCall(call, {GST_TM_CONFIRM_METHOD_ABSDIFF}, TShapes)
    /\ ret = Null
    /\ out = Image(call.templateGray.width, call.templateGray.height,
                   [i \in 1..(call.templateGray.width * call.templateGray.height) |-> ROIGrayFill])
    /\ lp = LpIdle
    /\ ElementIdle

SpecAbsDiff == InitAbsDiff /\ [][NextConfirm]_vars


(***************************************************************************)
(* The confirm step stated on the pixels: the region of the frame under    *)
(* the template, the pixels of it that differ from the template, and       *)
(* erosion as an operation on sets of pixels.                              *)
(***************************************************************************)
\* the places of the template, row-major
Places(c) == 1..(c.templateGray.width * c.templateGray.height)

\* the absolute difference of the greys of the frame and the template at
\* place i of the template set at bestPos
AbsGreyDiff(c, i) ==
    LET w == c.templateGray.width
        fx == c.bestPos[1] + ((i - 1) % w)
        fy == c.bestPos[2] + ((i - 1) \div w)
        g == BGR2GRAY(c.input.data[fy * c.input.width + fx + 1])
        t == c.templateGray.data[i]
    IN IF g >= t THEN g - t ELSE t - g

\* the places next to place i, left, right, above and below, inside a map
\* of width w and height h
Beside(i, w, h) ==
    {j \in 1..(w * h) :
        \/ j = i - 1 /\ (i - 1) % w # 0
        \/ j = i + 1 /\ i % w # 0
        \/ j = i - w
        \/ j = i + w}

\* a set of marked places eroded n times
RECURSIVE Eroded(_, _, _, _)
Eroded(marked, w, h, n) ==
    IF n = 0 THEN marked
    ELSE Eroded({i \in marked : Beside(i, w, h) \subseteq marked}, w, h, n - 1)

\* the marked places that remain after erodePasses erosions
Remaining(c, marked) ==
    Eroded(marked, c.templateGray.width, c.templateGray.height, c.erodePasses)

ConfirmedAbsDiff == ret.kind = "bool" /\ call.method = GST_TM_CONFIRM_METHOD_ABSDIFF

(***************************************************************************)
(* C13: confirmation with method AbsDiff returns true iff, after marking   *)
(* every pixel of the region whose absolute grey difference to the         *)
(* template is >= the threshold and eroding the map erodePasses times with *)
(* the 3x3 elliptical element, no marked pixel remains.                    *)
(***************************************************************************)
C13_MarkedAtLeast ==
    ConfirmedAbsDiff =>
        LET marked == {i \in Places(call) : AbsGreyDiff(call, i) >= confirm_threshold(call.confirmThreshold)}
        IN ret.val = (Remaining(call, marked) = {})

\* C13 as amended: the marked pixels are those whose absolute grey
\* difference is greater than the threshold; the map left in inputROIGray
\* holds 255 at the pixels that remain and 0 elsewhere
C13_MarkedAbove ==
    ConfirmedAbsDiff =>
        LET marked == {i \in Places(call) : AbsGreyDiff(call, i) > confirm_threshold(call.confirmThreshold)}
        IN /\ ret.val = (Remaining(call, marked) = {})
           /\ \A i \in Places(call) :
                 out.data[i] = IF i \in Remaining(call, marked) THEN 255 ELSE 0

\* a 3x3 region with pixels differing by 41 under the threshold 40 of
\* 0.16f, all of them removed by one erosion
C13_Witness ==
    /\ ConfirmedAbsDiff
    /\ call.templateGray.width = 3 /\ call.templateGray.height = 3
    /\ call.confirmThreshold = DEFAULT_CONFIRM_THRESHOLD
    /\ call.erodePasses = 1
    /\ Cardinality({i \in Places(call) : AbsGreyDiff(call, i) = 41}) = 5
    /\ ret.val = TRUE

(***************************************************************************)
(* C14: with method AbsDiff and erodePasses = 0 no erosion is applied:     *)
(* confirmation returns true iff no pixel's absolute difference reaches    *)
(* the threshold; a pair of zero difference at every pixel is confirmed    *)
(* for every threshold; one pixel differing by more than the threshold     *)
(* rejects the match.                                                      *)
(***************************************************************************)
C14_NoneReaches ==
    (ConfirmedAbsDiff /\ call.erodePasses = 0) =>
        /\ ret.val = (\A i \in Places(call) :
                         AbsGreyDiff(call, i) < confirm_threshold(call.confirmThreshold))
        /\ (\A i \in Places(call) : AbsGreyDiff(call, i) = 0) => ret.val
        /\ (\E i \in Places(call) :
               AbsGreyDiff(call, i) > confirm_threshold(call.confirmThreshold))
              => ~ret.val

\* C14 as amended: true iff no pixel's absolute difference is greater than
\* the threshold
C14_NoneExceeds ==
    (ConfirmedAbsDiff /\ call.erodePasses = 0) =>
        /\ ret.val = (\A i \in Places(call) :
                         AbsGreyDiff(call, i) <= confirm_threshold(call.confirmThreshold))
        /\ (\A i \in Places(call) : AbsGreyDiff(call, i) = 0) => ret.val
        /\ (\E i \in Places(call) :
               AbsGreyDiff(call, i) > confirm_threshold(call.confirmThreshold))
              => ~ret.val

\* one pixel of four differs by 41, above the threshold 40 of 0.16f, and
\* with no erosion the match is rejected
C14_Witness ==
    /\ ConfirmedAbsDiff
    /\ call.erodePasses = 0
    /\ call.confirmThreshold = DEFAULT_CONFIRM_THRESHOLD
    /\ Cardinality(Places(call)) = 4
    /\ Cardinality({i \in Places(call) : AbsGreyDiff(call, i) = 41}) = 1
    /\ Cardinality({i \in Places(call) : AbsGreyDiff(call, i) = 0}) = 3
    /\ ret.val = FALSE


(***************************************************************************)
(* C15.  Confirmation with method None returns true for every frame,       *)
(* template, candidate position, confirm threshold and erodePasses,        *)
(* without reading any pixel: the call returns TRUE and leaves the scratch *)
(* image filter->cvImageROIGray, into which the other two methods convert  *)
(* the frame's region, as it was.                                          *)
(***************************************************************************)
C15_NoneConfirms ==
    (ret.kind = "bool" /\ call.method = GST_TM_CONFIRM_METHOD_NONE) =>
        /\ ret.val = TRUE
        /\ out = Image(call.templateGray.width, call.templateGray.height,
                       [i \in 1..(call.templateGray.width * call.templateGray.height) |-> ROIGrayFill])

\* a region that differs from the template in every pixel by 41, under
\* threshold 0 and no erosion, is confirmed by method None
C15_Witness ==
    /\ ret.kind = "bool"
    /\ call.method = GST_TM_CONFIRM_METHOD_NONE
    /\ call.confirmThreshold = 0
    /\ call.erodePasses = 0
    /\ call.templateGray.width * call.templateGray.height > 1
    /\ \A i \in Places(call) : AbsGreyDiff(call, i) = 41
    /\ ret.val = TRUE


(***************************************************************************)
(* The binarization thresholds                                             *)
(***************************************************************************)

\* gst_motiondetect_apply: int threshold = (int)((1 - noiseThreshold) * 255)
motion_threshold(noiseThreshold) == FloatTimes255ToInt(FloatOneMinus(noiseThreshold))

\* the property values of SpecThresholds are the multiples of 2^-GridBits
\* in [0, 1] and the floats of ThresholdFloats
GridBits == 8

\* 0.16f, 0.84f, 0.2f, 0.8f, and a float x for which the float 1 - x lies
\* above the real 1 - x and (1 - x) * 255 just below 200
ThresholdFloats == {DEFAULT_CONFIRM_THRESHOLD, DEFAULT_NOISE_THRESHOLD, 13421773, 53687092, 14474461}

ThresholdValues == {k * Pow2(26 - GridBits) : k \in 0..Pow2(GridBits)} \cup ThresholdFloats

InitThresholds ==
    /\ \E fn \in {"confirm_threshold", "motion_threshold"}, x \in ThresholdValues :
         call = [fn |-> fn, value |-> x]
    /\ ret = Null
    /\ out = Null
    /\ lp = LpIdle
    /\ ElementIdle

\* gst_templatematch_confirm_absdiff up to the computation of threshold
Call_confirm_threshold ==
    /\ call.fn = "confirm_threshold"
    /\ ret = Null
    /\ ret' = [kind |-> "int", val |-> confirm_threshold(call.value)]
    /\ UNCHANGED <<call, out, lp>>
    /\ UNCHANGED elementVars

\* gst_motiondetect_apply up to the computation of threshold
Call_motion_threshold ==
    /\ call.fn = "motion_threshold"
    /\ ret = Null
    /\ ret' = [kind |-> "int", val |-> motion_threshold(call.value)]
    /\ UNCHANGED <<call, out, lp>>
    /\ UNCHANGED elementVars

NextThresholds == Call_confirm_threshold \/ Call_motion_threshold

SpecThresholds == InitThresholds /\ [][NextThresholds]_vars

\* round(v * 255) and floor(v * 255) of the real number v / 2^26, v in
\* 0..2^26
Round255(v) == (((v \div 8192) * 255) + (((v % 8192) * 255) \div 8192) + 4096) \div 8192

Floor255(v) == (((v \div 8192) * 255) + (((v % 8192) * 255) \div 8192)) \div 8192

(***************************************************************************)
(* C16.  The 8-bit binarization thresholds are round(noiseThreshold*255)   *)
(* in the confirm step and round((1-noiseThreshold)*255) in motion         *)
(* detection, for every configured threshold value in [0,1] (including the *)
(* defaults 0.16 and 0.84).                                                *)
(***************************************************************************)
C16_Rounded ==
    ret.kind = "int" =>
        /\ call.fn = "confirm_threshold" => ret.val = Round255(call.value)
        /\ call.fn = "motion_threshold" => ret.val = Round255(FltOne - call.value)

(***************************************************************************)
(* C16 as the code has it: the thresholds are the integer parts,           *)
(* floor(confirmThreshold * 255) in the confirm step and                   *)
(* floor(d * 255) in motion detection, d being the float difference        *)
(* 1 - noiseThreshold (the real difference rounded to single precision).   *)
(***************************************************************************)
C16_Truncated ==
    ret.kind = "int" =>
        /\ ret.val \in 0..255
        /\ call.fn = "confirm_threshold" => ret.val = Floor255(call.value)
        /\ call.fn = "motion_threshold" => ret.val = Floor255(FloatOneMinus(call.value))

\* the default noiseThreshold 0.84f gives the motion threshold 40, where
\* rounding gives 41
C16_Witness ==
    /\ ret.kind = "int"
    /\ call.fn = "motion_threshold"
    /\ call.value = DEFAULT_NOISE_THRESHOLD
    /\ ret.val = 40
    /\ Round255(FltOne - call.value) = 41


(***************************************************************************)
(* The templatematch element (src/gst/gsttemplatematch.c).                 *)
(*                                                                         *)
(* filter holds the fields of StbtTemplateMatch and the holder of the      *)
(* object lock; thread holds the streaming thread (chain and set_caps run  *)
(* on it), the application thread (set_property), the number of the next   *)
(* frame and, as history, what chain found and decided for each frame;     *)
(* bus holds the messages posted and pushed the buffers pushed on the      *)
(* source pad.  filter->matchMethod only selects the correlation that the  *)
(* search, an external function, computes, and filter->debugDirectory only *)
(* writes image files: neither is kept.                                    *)
(***************************************************************************)

\* DEFAULT_MATCH_THRESHOLD 0.80f and DEFAULT_ERODE_PASSES
DEFAULT_MATCH_THRESHOLD == 53687092
DEFAULT_ERODE_PASSES == 1
DEFAULT_CONFIRM_METHOD == GST_TM_CONFIRM_METHOD_ABSDIFF

GST_TM_SINGLE_FRAME_DISABLED == 0
GST_TM_SINGLE_FRAME_NEXT == 1
GST_TM_SINGLE_FRAME_WAIT == 2

\* the number of frames that arrive and of calls of set_property
MaxFrames == 2
MaxSets == 2

\* no call of a function is under way
KernelIdle == call = Null /\ ret = Null /\ out = Null /\ lp = LpIdle

\* gst_templatematch_init; GObject hands out zeroed memory, which makes
\* singleFrameData NULL
gst_templatematch_init ==
    [template |-> Null, display |-> TRUE, cvTemplateImage |-> Null,
     cvDistImage |-> Null, cvImage |-> Null, cvImageROIGray |-> Null,
     cvTemplateImageGray |-> Null,
     matchThreshold |-> DEFAULT_MATCH_THRESHOLD,
     confirmMethod |-> DEFAULT_CONFIRM_METHOD,
     erodePasses |-> DEFAULT_ERODE_PASSES,
     confirmThreshold |-> DEFAULT_CONFIRM_THRESHOLD,
     singleFrameMode |-> GST_TM_SINGLE_FRAME_DISABLED,
     singleFrameData |-> Null,
     templateImageAcquired |-> FALSE, capsInitialised |-> FALSE,
     lock |-> "free"]

\* the image files: a.png of one pixel, b.png of two pixels side by side,
\* and a path that cannot be read
TemplateFiles == {"a.png", "b.png", "missing.png"}

cvLoadImage(template) ==
    CASE template = "a.png" -> Image(1, 1, <<TemplatePixel>>)
      [] template = "b.png" -> Image(2, 1, <<TemplatePixel, TemplatePixel>>)
      [] OTHER -> Null

\* the sizes of the caps
CapsSizes == {<<1, 1>>, <<2, 1>>}

\* the pixels of frame number k of size w x h: the template's colour and a
\* colour of grey 141 in turn, frame after frame
FrameData(k, w, h) ==
    [i \in 1..(w * h) |-> IF (k + i) % 2 = 0 THEN TemplatePixel ELSE <<0, 200, 78>>]

\* the scores the search may report: 0.80f and the number 2^-26 below it
Scores == {DEFAULT_MATCH_THRESHOLD - 1, DEFAULT_MATCH_THRESHOLD}

\* the values set_property is called with; erodePasses, confirmThreshold
\* and display keep their defaults
PropertyValues(prop) ==
    CASE prop = "matchThreshold" -> {FltOne}
      [] prop = "confirmMethod" -> {GST_TM_CONFIRM_METHOD_NONE}
      [] prop = "erodePasses" -> {}
      [] prop = "confirmThreshold" -> {}
      [] prop = "display" -> {}
      [] prop = "singleFrameMode" -> {GST_TM_SINGLE_FRAME_NEXT, GST_TM_SINGLE_FRAME_DISABLED}
      [] prop = "template" -> TemplateFiles

Properties == {"matchThreshold", "confirmMethod", "erodePasses", "confirmThreshold", "display", "singleFrameMode", "template"}

\* gst_templatematch_rebuild_dist_image: a template wider or taller than
\* the image leaves cvDistImage as it was
gst_templatematch_rebuild_dist_image(f) ==
    IF f.cvTemplateImage # Null /\ f.cvImage # Null
    THEN IF f.cvTemplateImage.width > f.cvImage.width THEN f
         ELSE IF f.cvTemplateImage.height > f.cvImage.height THEN f
         ELSE [f EXCEPT !.cvDistImage =
                 [width |-> f.cvImage.width - f.cvTemplateImage.width + 1,
                  height |-> f.cvImage.height - f.cvTemplateImage.height + 1]]
    ELSE f

\* gst_templatematch_rebuild_template_images
gst_templatematch_rebuild_template_images(f) ==
    IF f.cvTemplateImage # Null
    THEN [f EXCEPT !.cvImageROIGray =
                     Image(f.cvTemplateImage.width, f.cvTemplateImage.height,
                           [i \in 1..(f.cvTemplateImage.width * f.cvTemplateImage.height) |-> ROIGrayFill]),
                   !.cvTemplateImageGray = cvCvtColor(f.cvTemplateImage)]
    ELSE [f EXCEPT !.cvImageROIGray = Null, !.cvTemplateImageGray = Null]

\* mutation: templateImageAcquired is set whatever the new image is
load_template_locked_acquired(f, template, newTemplateImage) ==
    LET f1 == [f EXCEPT !.template = template, !.cvTemplateImage = newTemplateImage]
        f2 == gst_templatematch_rebuild_template_images(gst_templatematch_rebuild_dist_image(f1))
    IN [f2 EXCEPT !.templateImageAcquired = TRUE]

\* gst_templatematch_load_template from GST_OBJECT_LOCK on; template is
\* NULL when the image could not be read
load_template_locked(f, template, newTemplateImage) ==
    LET f1 == [f EXCEPT !.template = template, !.cvTemplateImage = newTemplateImage]
        f2 == gst_templatematch_rebuild_template_images(gst_templatematch_rebuild_dist_image(f1))
    IN [f2 EXCEPT !.templateImageAcquired = (f2.cvTemplateImage # Null)]

\* gst_templatematch_set_caps
gst_templatematch_set_caps(f, width, height) ==
    LET f1 == gst_templatematch_rebuild_dist_image([f EXCEPT !.cvImage = [width |-> width, height |-> height]])
    IN [f1 EXCEPT !.capsInitialised = (f1.cvImage # Null)]

\* gst_templatematch_match: cvMatchTemplate raises an error unless the
\* template fits in the image and dist_image has one place for each
\* position of the template; the default error handler ends the process.
\* (A template at least as large as the image both ways, with a dist_image
\* of the size of their difference, does not come about for the sizes
\* above.)
MatchRuns(f) ==
    /\ f.cvDistImage # Null
    /\ f.cvTemplateImage.width <= f.cvImage.width
    /\ f.cvTemplateImage.height <= f.cvImage.height
    /\ f.cvDistImage.width = f.cvImage.width - f.cvTemplateImage.width + 1
    /\ f.cvDistImage.height = f.cvImage.height - f.cvTemplateImage.height + 1

\* what the search may find: any score at any position of dist_image
gst_templatematch_match(f) ==
    {[best_res |-> s, best_pos |-> <<x, y>>] :
        s \in Scores, x \in 0..(f.cvDistImage.width - 1), y \in 0..(f.cvDistImage.height - 1)}

\* mutation: the confirm step runs whatever the score
chain_matched_unconditional(f, data, best) ==
    LET r == gst_templatematch_confirm(f.cvImageROIGray, Image(f.cvImage.width, f.cvImage.height, data), f.cvTemplateImageGray, f.confirmThreshold, best.best_pos, f.confirmMethod, f.erodePasses)
    IN [matched |-> r.confirmed, confirmRun |-> TRUE, inputROIGray |-> r.inputROIGray]

\* gst_templatematch_chain: matched, whether confirm was called, and what
\* is left in filter->cvImageROIGray
chain_matched(f, data, best) ==
    IF best.best_res >= f.matchThreshold
    THEN LET r == gst_templatematch_confirm(f.cvImageROIGray, Image(f.cvImage.width, f.cvImage.height, data), f.cvTemplateImageGray, f.confirmThreshold, best.best_pos, f.confirmMethod, f.erodePasses)
         IN [matched |-> r.confirmed, confirmRun |-> TRUE, inputROIGray |-> r.inputROIGray]
    ELSE [matched |-> FALSE, confirmRun |-> FALSE, inputROIGray |-> f.cvImageROIGray]

\* mutation: the message goes without the size of the template
template_match_unsized(f, buf, best, matched) ==
    [name |-> "template_match", x |-> best.best_pos[1], y |-> best.best_pos[2],
     timestamp |-> buf.timestamp, first_pass_result |-> best.best_res,
     template_path |-> f.template, match |-> matched]

\* the message of gst_templatematch_chain
template_match(f, buf, best, matched) ==
    [name |-> "template_match", x |-> best.best_pos[1], y |-> best.best_pos[2],
     width |-> f.cvTemplateImage.width, height |-> f.cvTemplateImage.height,
     timestamp |-> buf.timestamp, first_pass_result |-> best.best_res,
     template_path |-> f.template, match |-> matched]

ChainIdle == [pc |-> "idle", buf |-> Null, m |-> Null]

AppIdle == [pc |-> "idle", value |-> Null, template |-> Null, newTemplateImage |-> Null]

\* the element is a stbt-templatematch whose process has not been ended by
\* an OpenCV error
Alive == "chain" \in DOMAIN thread /\ thread.chain.pc # "crash"

InitTemplateMatch ==
    /\ KernelIdle
    /\ filter = gst_templatematch_init
    /\ thread = [chain |-> ChainIdle, app |-> AppIdle, frames |-> 0, sets |-> 0, seen |-> <<>>,
                 warnings |-> <<>>, loaded |-> "none"]
    /\ bus = <<>>
    /\ pushed = <<>>

\* caps are negotiated on the streaming thread, between two buffers
TM_set_caps ==
    /\ Alive
    /\ thread.chain.pc = "idle"
    /\ \E size \in CapsSizes :
         /\ IF filter.cvImage = Null THEN TRUE ELSE <<filter.cvImage.width, filter.cvImage.height>> # size
         /\ filter' = gst_templatematch_set_caps(filter, size[1], size[2])
    /\ UNCHANGED <<thread, bus, pushed>>
    /\ UNCHANGED kernelVars

\* gst_templatematch_set_property but for PROP_TEMPLATE: lock, assign,
\* unlock; PROP_SINGLE_FRAME signals singleFrameModeModified as well
TM_set_property ==
    /\ Alive
    /\ thread.app.pc = "idle"
    /\ thread.sets < MaxSets
    /\ filter.lock = "free"
    /\ \E prop \in Properties \ {"template"} : \E value \in PropertyValues(prop) :
         filter' = IF prop = "singleFrameMode"
                   THEN [filter EXCEPT !.singleFrameMode = value, !.singleFrameData = [kind |-> "pointer", to |-> "singleFrameMode"]]
                   ELSE [filter EXCEPT ![prop] = value]
    /\ thread' = [thread EXCEPT !.sets = @ + 1,
                                !.chain.pc = IF @ = "wait" /\ filter'.singleFrameData # Null THEN "lock" ELSE @]
    /\ UNCHANGED <<bus, pushed>>
    /\ UNCHANGED kernelVars

\* gst_templatematch_set_property, PROP_TEMPLATE: gst_templatematch_load_template
\* reads the image before it takes the lock; a string is a record, as NULL
\* is.  The warnings the element raises are kept in thread.warnings.
TM_load_template ==
    /\ Alive
    /\ thread.app.pc = "idle"
    /\ thread.sets < MaxSets
    /\ \E template \in PropertyValues("template") :
         LET newTemplateImage == cvLoadImage(template)
         IN thread' = [thread EXCEPT !.sets = @ + 1,
                          !.app = [pc |-> "install",
                                   value |-> [kind |-> "string", val |-> template],
                                   template |-> IF newTemplateImage = Null THEN Null ELSE [kind |-> "string", val |-> template],
                                   newTemplateImage |-> newTemplateImage],
                          !.warnings = IF newTemplateImage = Null
                                       THEN Append(@, [warning |-> "GST_ELEMENT_WARNING", template |-> [kind |-> "string", val |-> template]])
                                       ELSE @]
    /\ UNCHANGED <<filter, bus, pushed>>
    /\ UNCHANGED kernelVars

\* ... and installs it under the lock; thread.loaded remembers how the
\* last load that was installed ended
TM_install_template ==
    /\ Alive
    /\ thread.app.pc = "install"
    /\ filter.lock = "free"
    /\ filter' = load_template_locked(filter, thread.app.template, thread.app.newTemplateImage)
    /\ thread' = [thread EXCEPT !.app = AppIdle,
                                !.loaded = IF thread.app.newTemplateImage = Null THEN "failed" ELSE "succeeded"]
    /\ UNCHANGED <<bus, pushed>>
    /\ UNCHANGED kernelVars

\* a buffer arrives on the sink pad; it has the size of the caps
TM_chain ==
    /\ Alive
    /\ thread.chain.pc = "idle"
    /\ thread.frames < MaxFrames
    /\ LET k == thread.frames + 1
           w == IF filter.cvImage = Null THEN 1 ELSE filter.cvImage.width
           h == IF filter.cvImage = Null THEN 1 ELSE filter.cvImage.height
       IN thread' = [thread EXCEPT !.frames = k,
                        !.chain = [pc |-> "lock", m |-> Null,
                                   buf |-> [timestamp |-> k, data |-> FrameData(k, w, h), rectangle |-> FALSE]]]
    /\ UNCHANGED <<filter, bus, pushed>>
    /\ UNCHANGED kernelVars

\* GST_OBJECT_LOCK, and the return from g_cond_wait
TM_chain_lock ==
    /\ Alive
    /\ thread.chain.pc = "lock"
    /\ filter.lock = "free"
    /\ filter' = [filter EXCEPT !.lock = "chain"]
    /\ thread' = [thread EXCEPT !.chain.pc = "locked"]
    /\ UNCHANGED <<bus, pushed>>
    /\ UNCHANGED kernelVars

\* mutation: no frame ever waits
SingleFrameWaits_never(f) == FALSE

SingleFrameWaits(f) ==
    f.singleFrameMode # GST_TM_SINGLE_FRAME_DISABLED /\ f.singleFrameData = Null

\* g_cond_wait: the lock is released until singleFrameModeModified is
\* signalled
TM_chain_wait ==
    /\ Alive
    /\ thread.chain.pc = "locked"
    /\ SingleFrameWaits(filter)
    /\ filter' = [filter EXCEPT !.lock = "free"]
    /\ thread' = [thread EXCEPT !.chain.pc = "wait"]
    /\ UNCHANGED <<bus, pushed>>
    /\ UNCHANGED kernelVars

\* the body of gst_templatematch_chain up to GST_OBJECT_UNLOCK
TM_chain_search ==
    /\ Alive
    /\ thread.chain.pc = "locked"
    /\ ~SingleFrameWaits(filter)
    /\ LET single == [filter EXCEPT
                        !.singleFrameMode = IF @ # GST_TM_SINGLE_FRAME_DISABLED THEN GST_TM_SINGLE_FRAME_WAIT ELSE @,
                        !.singleFrameData = IF filter.singleFrameMode # GST_TM_SINGLE_FRAME_DISABLED THEN Null ELSE @,
                        !.lock = "free"]
       IN IF filter.capsInitialised /\ filter.templateImageAcquired
          THEN IF MatchRuns(filter)
               THEN \E best \in gst_templatematch_match(filter) :
                      LET d == chain_matched(filter, thread.chain.buf.data, best)
                      IN /\ filter' = [single EXCEPT !.cvImageROIGray = d.inputROIGray]
                         /\ thread' = [thread EXCEPT
                               !.chain.pc = "post",
                               !.chain.m = template_match(filter, thread.chain.buf, best, d.matched),
                               !.chain.buf.rectangle = filter.display,
                               !.seen = Append(@, [timestamp |-> thread.chain.buf.timestamp,
                                                    data |-> thread.chain.buf.data,
                                                    best |-> best, filter |-> filter,
                                                    confirmRun |-> d.confirmRun,
                                                    loaded |-> thread.loaded])]
               ELSE /\ thread' = [thread EXCEPT !.chain.pc = "crash"]
                    /\ UNCHANGED filter
          ELSE /\ filter' = single
               /\ thread' = [thread EXCEPT
                     !.chain.pc = "post",
                     !.seen = Append(@, [timestamp |-> thread.chain.buf.timestamp,
                                          data |-> thread.chain.buf.data,
                                          best |-> Null, filter |-> filter,
                                          confirmRun |-> FALSE,
                                          loaded |-> thread.loaded])]
    /\ UNCHANGED <<bus, pushed>>
    /\ UNCHANGED kernelVars

\* gst_element_post_message, if there is a message
TM_chain_post ==
    /\ Alive
    /\ thread.chain.pc = "post"
    /\ bus' = IF thread.chain.m # Null THEN Append(bus, thread.chain.m) ELSE bus
    /\ thread' = [thread EXCEPT !.chain.pc = "push"]
    /\ UNCHANGED <<filter, pushed>>
    /\ UNCHANGED kernelVars

\* gst_pad_push
TM_chain_push ==
    /\ Alive
    /\ thread.chain.pc = "push"
    /\ pushed' = Append(pushed, thread.chain.buf)
    /\ thread' = [thread EXCEPT !.chain = ChainIdle]
    /\ UNCHANGED <<filter, bus>>
    /\ UNCHANGED kernelVars

NextTemplateMatch ==
    \/ TM_set_caps
    \/ TM_set_property
    \/ TM_load_template
    \/ TM_install_template
    \/ TM_chain
    \/ TM_chain_lock
    \/ TM_chain_wait
    \/ TM_chain_search
    \/ TM_chain_post
    \/ TM_chain_push

SpecTemplateMatch == InitTemplateMatch /\ [][NextTemplateMatch]_vars


\* the history entry of the frame a message or a buffer belongs to
Seen(timestamp) ==
    CHOOSE e \in {thread.seen[i] : i \in 1..Len(thread.seen)} : e.timestamp = timestamp

WasSeen(timestamp) == \E i \in 1..Len(thread.seen) : thread.seen[i].timestamp = timestamp

\* the messages posted and the one about to be posted
Messages ==
    {bus[i] : i \in 1..Len(bus)} \cup (IF thread.chain.m # Null THEN {thread.chain.m} ELSE {})

(***************************************************************************)
(* C17.  A template_match event reports match = TRUE only if the           *)
(* first-pass score of that frame is >= matchThreshold and the confirm     *)
(* step returned true for the same frame and candidate position; when the  *)
(* score is below matchThreshold the confirm step is not run and match is  *)
(* FALSE.                                                                  *)
(***************************************************************************)
C17_MatchIsScoreAndConfirm ==
    \A m \in Messages :
        /\ WasSeen(m.timestamp)
        /\ LET e == Seen(m.timestamp)
               f == e.filter
           IN /\ m.first_pass_result = e.best.best_res
              /\ <<m.x, m.y>> = e.best.best_pos
              /\ m.match = TRUE =>
                   /\ m.first_pass_result >= f.matchThreshold
                   /\ e.confirmRun
                   /\ gst_templatematch_confirm(f.cvImageROIGray, Image(f.cvImage.width, f.cvImage.height, e.data), f.cvTemplateImageGray, f.confirmThreshold, <<m.x, m.y>>, f.confirmMethod, f.erodePasses).confirmed
              /\ m.first_pass_result < f.matchThreshold =>
                   /\ ~e.confirmRun
                   /\ m.match = FALSE

\* the bus holds a match, a frame whose score was below matchThreshold,
\* both confirmed by AbsDiff
C17_Witness ==
    /\ Len(bus) = 2
    /\ bus[1].match = TRUE
    /\ Seen(1).filter.confirmMethod = GST_TM_CONFIRM_METHOD_ABSDIFF
    /\ bus[2].match = FALSE
    /\ bus[2].first_pass_result < Seen(2).filter.matchThreshold


\* caps were negotiated and a template had been read when chain took the
\* frame of this history entry
Searching(e) == e.filter.cvImage # Null /\ e.filter.cvTemplateImage # Null

\* the messages on the bus about the frame of a timestamp
MessagesOf(timestamp) == {i \in 1..Len(bus) : bus[i].timestamp = timestamp}

(***************************************************************************)
(* C18.  Once caps are negotiated and a template has been read             *)
(* successfully, every incoming frame produces exactly one template_match  *)
(* message (with match TRUE or FALSE and x, y the best position found);    *)
(* and every incoming frame, whether or not a message is produced, is      *)
(* pushed downstream exactly once, in arrival order.  As a property of     *)
(* every state: the buffers pushed are the frames that arrived, in their   *)
(* order, but for the one chain is working on, which chain does not        *)
(* abandon; and each buffer pushed has one message on the bus if chain     *)
(* took it with caps and template in place, none otherwise.                *)
(***************************************************************************)
C18_OneMessageOnePush ==
    /\ thread.chain.pc # "crash"
    /\ Len(pushed) = IF thread.chain.pc = "idle" THEN thread.frames ELSE thread.frames - 1
    /\ \A i \in 1..Len(pushed) :
         /\ pushed[i].timestamp = i
         /\ WasSeen(i)
         /\ IF Searching(Seen(i))
            THEN /\ Cardinality(MessagesOf(i)) = 1
                 /\ \A j \in MessagesOf(i) :
                      /\ bus[j].name = "template_match"
                      /\ bus[j].match \in BOOLEAN
                      /\ <<bus[j].x, bus[j].y>> = Seen(i).best.best_pos
            ELSE MessagesOf(i) = {}


(***************************************************************************)
(* The motiondetect element (src/gst/gstmotiondetect.c).                   *)
(*                                                                         *)
(* filter holds the fields of StbtMotionDetect; thread holds the streaming *)
(* thread (set_caps and transform_ip run on it; the base class calls       *)
(* transform_ip only once set_caps has succeeded), the counts of the calls *)
(* made and, as history, the events in the order in which they took        *)
(* effect on filter; bus holds the messages posted and pushed the buffers  *)
(* handed on.  Every access to filter from set_property and transform_ip   *)
(* lies between GST_OBJECT_LOCK and GST_OBJECT_UNLOCK with no wait in      *)
(* between, so each locked region is one step.  The fields                 *)
(* pReferenceImageGray and pCurrentImageGray are the addresses of the two  *)
(* grey images, 0 for NULL, next to their contents.                        *)
(***************************************************************************)

MOTION_DETECT_STATE_INITIALISING == 0
MOTION_DETECT_STATE_ACQUIRING_REFERENCE_IMAGE == 1
MOTION_DETECT_STATE_REFERENCE_IMAGE_ACQUIRED == 2

\* the number of calls of set_caps and set_property together
MaxCalls == 3

\* gst_motiondetect_init
gst_motiondetect_init ==
    [enabled |-> FALSE, state |-> MOTION_DETECT_STATE_INITIALISING,
     cvCurrentImage |-> Null, cvReferenceImageGray |-> Null,
     cvCurrentImageGray |-> Null, cvMaskImage |-> Null,
     cvInvertedMaskImage |-> Null, mask |-> Null,
     noiseThreshold |-> DEFAULT_NOISE_THRESHOLD, display |-> TRUE,
     pReferenceImageGray |-> 0, pCurrentImageGray |-> 0,
     negotiated |-> FALSE]

\* gst_motiondetect_check_mask_compability reads cvCurrentImage->width: a
\* NULL pointer when detection was enabled before the caps were known
check_mask_dereferences_null(f) ==
    /\ f.state # MOTION_DETECT_STATE_INITIALISING
    /\ f.cvMaskImage # Null
    /\ f.cvCurrentImage = Null

\* gst_motiondetect_check_mask_compability, where it reads no NULL pointer
gst_motiondetect_check_mask_compability(f) ==
    ~(/\ f.state # MOTION_DETECT_STATE_INITIALISING
      /\ f.cvMaskImage # Null
      /\ (f.cvMaskImage.width # f.cvCurrentImage.width \/ f.cvMaskImage.height # f.cvCurrentImage.height))

\* cvCreateImage: the pixels are whatever the memory held; they are
\* written before they are read
CreatedGray(width, height) == Image(width, height, [i \in 1..(width * height) |-> ROIGrayFill])

\* gst_motiondetect_set_caps for caps video/x-raw-rgb of depth 24: the
\* images are created anew and the reference is dropped; without a mask
\* gst_motiondetect_check_mask_compability returns TRUE
\* mutation: the header of the current frame is created, the grey images
\* are not
gst_motiondetect_set_caps_header_only(f, width, height) ==
    LET created == [f EXCEPT !.cvCurrentImage = [width |-> width, height |-> height],
                             !.cvReferenceImageGray = Null,
                             !.cvCurrentImageGray = Null,
                             !.pReferenceImageGray = 0, !.pCurrentImageGray = 0,
                             !.state = MOTION_DETECT_STATE_ACQUIRING_REFERENCE_IMAGE]
    IN [created EXCEPT !.negotiated = gst_motiondetect_check_mask_compability(created)]

gst_motiondetect_set_caps(f, width, height) ==
    LET created == [f EXCEPT !.cvCurrentImage = [width |-> width, height |-> height],
                             !.cvReferenceImageGray = CreatedGray(width, height),
                             !.cvCurrentImageGray = CreatedGray(width, height),
                             !.pReferenceImageGray = 1, !.pCurrentImageGray = 2,
                             !.state = MOTION_DETECT_STATE_ACQUIRING_REFERENCE_IMAGE]
    IN [created EXCEPT !.negotiated = gst_motiondetect_check_mask_compability(created)]

\* mutation: setting enabled leaves the reference in place
set_property_enabled_keeps(f, value) == [f EXCEPT !.enabled = value]

\* mutation: setting enabled to either value drops the reference
set_property_enabled_drops(f, value) ==
    [f EXCEPT !.enabled = value, !.state = MOTION_DETECT_STATE_ACQUIRING_REFERENCE_IMAGE]

\* gst_motiondetect_set_property, PROP_ENABLED
set_property_enabled(f, value) ==
    [f EXCEPT !.enabled = value,
              !.state = IF value THEN MOTION_DETECT_STATE_ACQUIRING_REFERENCE_IMAGE ELSE @]

\* the places an operation with a mask works on: all of them when mask
\* is NULL, otherwise those where mask is not 0
Selected(mask, n) == IF mask = Null THEN 1..n ELSE {i \in 1..n : mask.data[i] # 0}

\* OpenCV raises an error, which ends the process, when a mask has not
\* the size of the image
MaskFits(mask, width, height) ==
    IF mask = Null THEN TRUE ELSE mask.width = width /\ mask.height = height

\* cvMinMaxLoc: the largest pixel among those selected, 0 if none is
MaxVal(image, mask) ==
    LET sel == Selected(mask, image.width * image.height)
    IN IF sel = {} THEN 0
       ELSE CHOOSE v \in {image.data[i] : i \in sel} : \A i \in sel : image.data[i] <= v

\* mutation: the largest pixel is taken over the whole image
gst_motiondetect_apply_unmasked(cvReferenceImage, cvCurrentImage, cvMaskImage, noiseThreshold) ==
    LET threshold == motion_threshold(noiseThreshold)
        cvAbsDiffImage == cvErode(cvThreshold(cvAbsDiff(cvReferenceImage, cvCurrentImage), threshold, 255), 1)
    IN [result |-> MaxVal(cvAbsDiffImage, Null) > 0, cvReferenceImage |-> cvAbsDiffImage]

\* gst_motiondetect_apply: the verdict, and the difference map it leaves
\* in the reference image; with a mask of another size cvMinMaxLoc raises
\* its error and there is no verdict
gst_motiondetect_apply(cvReferenceImage, cvCurrentImage, cvMaskImage, noiseThreshold) ==
    LET threshold == motion_threshold(noiseThreshold)
        cvAbsDiffImage == cvErode(cvThreshold(cvAbsDiff(cvReferenceImage, cvCurrentImage), threshold, 255), 1)
    IN [result |-> IF MaskFits(cvMaskImage, cvAbsDiffImage.width, cvAbsDiffImage.height)
                   THEN MaxVal(cvAbsDiffImage, cvMaskImage) > 0
                   ELSE Null,
        cvReferenceImage |-> cvAbsDiffImage]

\* mutation: a frame is compared while the reference is being acquired
reference_acquired_or_acquiring(f) == f.state # MOTION_DETECT_STATE_INITIALISING

\* gst_motiondetect_transform_ip: if (filter->state == ..._REFERENCE_IMAGE_ACQUIRED)
reference_acquired(f) == f.state = MOTION_DETECT_STATE_REFERENCE_IMAGE_ACQUIRED

\* cvSubS of CV_RGB(100, 100, 100) and cvAddS of CV_RGB(50, 0, 0) at the
\* places the mask selects
cvSubS100(data, mask) ==
    [i \in DOMAIN data |->
        IF i \in Selected(mask, Len(data))
        THEN [c \in 1..3 |-> IF data[i][c] > 100 THEN data[i][c] - 100 ELSE 0]
        ELSE data[i]]

cvAddS50(data, mask) ==
    [i \in DOMAIN data |->
        IF i \in Selected(mask, Len(data))
        THEN [c \in 1..3 |-> IF c = 3 THEN (IF data[i][c] > 205 THEN 255 ELSE data[i][c] + 50) ELSE data[i][c]]
        ELSE data[i]]

\* the message of gst_motiondetect_transform_ip
motiondetect(f, buf, result) ==
    [name |-> "motiondetect", has_motion |-> result, timestamp |-> buf.timestamp,
     masked |-> (f.mask # Null), mask_path |-> f.mask]

\* gst_motiondetect_transform_ip between GST_OBJECT_LOCK and
\* GST_OBJECT_UNLOCK: the filter, the message and the buffer it leaves
\* mutation: the current image is copied to the reference
swap_images_copy(f) ==
    [f EXCEPT !.cvReferenceImageGray = f.cvCurrentImageGray,
              !.pReferenceImageGray = f.pCurrentImageGray]

\* gst_motiondetect_transform_ip: the pointers cvReferenceImageGray and
\* cvCurrentImageGray are exchanged
swap_images(f) ==
    [f EXCEPT !.cvReferenceImageGray = f.cvCurrentImageGray,
              !.cvCurrentImageGray = f.cvReferenceImageGray,
              !.pReferenceImageGray = f.pCurrentImageGray,
              !.pCurrentImageGray = f.pReferenceImageGray]

transform_ip_locked(f, buf) ==
    IF f.enabled /\ f.state # MOTION_DETECT_STATE_INITIALISING
    THEN LET gray == cvCvtColor(Image(f.cvCurrentImage.width, f.cvCurrentImage.height, buf.data))
             compares == reference_acquired(f)
             a == gst_motiondetect_apply(f.cvReferenceImageGray, gray, f.cvMaskImage, f.noiseThreshold)
             subtracted == cvSubS100(buf.data, f.cvInvertedMaskImage)
             shown == IF a.result THEN cvAddS50(subtracted, f.cvMaskImage) ELSE subtracted
             f1 == [f EXCEPT !.cvCurrentImageGray = gray,
                             !.cvReferenceImageGray = IF compares THEN a.cvReferenceImage ELSE @]
         IN IF compares /\ ~MaskFits(f.cvMaskImage, gray.width, gray.height)
            THEN [filter |-> f1, m |-> Null, buf |-> buf, error |-> TRUE]
            ELSE [filter |-> [swap_images(f1) EXCEPT !.state = MOTION_DETECT_STATE_REFERENCE_IMAGE_ACQUIRED],
                  m |-> IF compares THEN motiondetect(f, buf, a.result) ELSE Null,
                  buf |-> IF compares /\ f.display THEN [buf EXCEPT !.data = shown] ELSE buf,
                  error |-> FALSE]
    ELSE [filter |-> f, m |-> Null, buf |-> buf, error |-> FALSE]

\* the sizes of the caps and the pixels of a frame
MDCapsSizes == {<<1, 1>>, <<2, 1>>}

MDFrames(w, h) == {FrameData(0, w, h), FrameData(1, w, h)}

\* the thread in gst_motiondetect_load_mask, with its local variables
LoadIdle == [pc |-> "idle", value |-> Null, mask |-> Null, newMaskImage |-> Null]

\* the element is a stbt-motiondetect whose process has not been ended by
\* an OpenCV error or a signal
MDAlive == "transform" \in DOMAIN thread /\ thread.transform.pc # "crash" /\ thread.load.pc # "crash"

InitMotionDetect ==
    /\ KernelIdle
    /\ filter = gst_motiondetect_init
    /\ thread = [transform |-> ChainIdle, load |-> LoadIdle, frames |-> 0, calls |-> 0,
                 events |-> <<>>, warnings |-> <<>>]
    /\ bus = <<>>
    /\ pushed = <<>>

\* gst_motiondetect_set_caps, on the streaming thread between two buffers
MD_set_caps ==
    /\ MDAlive
    /\ thread.transform.pc = "idle"
    /\ thread.calls < MaxCalls
    /\ \E size \in MDCapsSizes :
         filter' = gst_motiondetect_set_caps(filter, size[1], size[2])
    /\ thread' = [thread EXCEPT
          !.calls = @ + 1, !.events = Append(@, [ev |-> "caps"]),
          !.warnings = IF filter'.negotiated THEN @ ELSE Append(@, [warning |-> "GST_WARNING_OBJECT", mask |-> filter.mask])]
    /\ UNCHANGED <<bus, pushed>>
    /\ UNCHANGED kernelVars

\* gst_motiondetect_set_property, PROP_ENABLED
MD_set_property_enabled ==
    /\ MDAlive
    /\ thread.calls < MaxCalls
    /\ \E value \in BOOLEAN :
         /\ filter' = set_property_enabled(filter, value)
         /\ thread' = [thread EXCEPT !.calls = @ + 1,
                                     !.events = Append(@, [ev |-> "enabled", value |-> value])]
    /\ UNCHANGED <<bus, pushed>>
    /\ UNCHANGED kernelVars

\* a buffer of the size of the caps arrives; the base class takes none
\* while the caps are not negotiated
MD_transform_ip ==
    /\ MDAlive
    /\ thread.transform.pc = "idle"
    /\ filter.negotiated
    /\ thread.frames < MaxFrames
    /\ \E data \in MDFrames(filter.cvCurrentImage.width, filter.cvCurrentImage.height) :
         thread' = [thread EXCEPT !.frames = @ + 1,
                       !.transform = [pc |-> "lock", m |-> Null,
                                      buf |-> [timestamp |-> thread.frames + 1, data |-> data]]]
    /\ UNCHANGED <<filter, bus, pushed>>
    /\ UNCHANGED kernelVars

\* the locked region of gst_motiondetect_transform_ip
MD_transform_ip_locked ==
    /\ MDAlive
    /\ thread.transform.pc = "lock"
    /\ LET r == transform_ip_locked(filter, thread.transform.buf)
       IN /\ filter' = r.filter
          /\ thread' = IF r.error
                       THEN [thread EXCEPT !.transform.pc = "crash"]
                       ELSE [thread EXCEPT
                               !.transform = [pc |-> "post", m |-> r.m, buf |-> r.buf],
                               !.events = Append(@, [ev |-> "frame", timestamp |-> thread.transform.buf.timestamp,
                                                      data |-> thread.transform.buf.data,
                                                      enabled |-> filter.enabled,
                                                      noiseThreshold |-> filter.noiseThreshold,
                                                      mask |-> filter.mask,
                                                      cvMaskImage |-> filter.cvMaskImage,
                                                      cvInvertedMaskImage |-> filter.cvInvertedMaskImage])]
    /\ UNCHANGED <<bus, pushed>>
    /\ UNCHANGED kernelVars

\* gst_element_post_message, if there is a message, and the return to the
\* base class, which pushes the buffer
MD_transform_ip_return ==
    /\ MDAlive
    /\ thread.transform.pc = "post"
    /\ bus' = IF thread.transform.m # Null THEN Append(bus, thread.transform.m) ELSE bus
    /\ pushed' = Append(pushed, thread.transform.buf)
    /\ thread' = [thread EXCEPT !.transform = ChainIdle]
    /\ UNCHANGED filter
    /\ UNCHANGED kernelVars

NextMotionDetect ==
    \/ MD_set_caps
    \/ MD_set_property_enabled
    \/ MD_transform_ip
    \/ MD_transform_ip_locked
    \/ MD_transform_ip_return

SpecMotionDetect == InitMotionDetect /\ [][NextMotionDetect]_vars


\* the events of the history: a frame that was processed (transform_ip
\* found detection enabled), a call that set enabled to TRUE, a negotiation
\* of caps
Events == 1..Len(thread.events)

Processed(i) == thread.events[i].ev = "frame" /\ thread.events[i].enabled

Enabling(i) == thread.events[i].ev = "enabled" /\ thread.events[i].value

Negotiating(i) == thread.events[i].ev = "caps"

\* the verdicts about the frame of a timestamp: posted, or about to be
Verdicts(timestamp) ==
    Cardinality({j \in 1..Len(bus) : bus[j].timestamp = timestamp})
    + (IF thread.transform.m # Null /\ thread.transform.m.timestamp = timestamp THEN 1 ELSE 0)

\* the grey image of the frame of event i
GrayOf(i) ==
    LET n == Len(thread.events[i].data)
    IN cvCvtColor(Image(n, 1, thread.events[i].data))

\* the last event is the processing of a frame, whose grey image is the
\* reference
ReferenceIsLastFrame ==
    (thread.events # <<>> /\ Processed(Len(thread.events))) =>
        /\ filter.cvReferenceImageGray = GrayOf(Len(thread.events))
        /\ filter.state = MOTION_DETECT_STATE_REFERENCE_IMAGE_ACQUIRED

(***************************************************************************)
(* C19.  After enabled is set to TRUE, the first frame processed emits no  *)
(* motion verdict and is stored (as grayscale) as the reference; the       *)
(* second and every later processed frame emits exactly one verdict, until *)
(* detection is enabled again.  That is, of the processed frames and the   *)
(* calls that enable, a processed frame that follows a call has no         *)
(* verdict and one that follows a processed frame has exactly one.         *)
(***************************************************************************)
C19_FirstSilentThenVerdicts ==
    /\ ReferenceIsLastFrame
    /\ \A i \in Events : Processed(i) =>
         LET before == {j \in 1..(i - 1) : Processed(j) \/ Enabling(j)}
         IN /\ before # {}
            /\ LET j == CHOOSE k \in before : \A l \in before : l <= k
               IN Verdicts(thread.events[i].timestamp) = IF Processed(j) THEN 1 ELSE 0

(***************************************************************************)
(* C19 as the code has it: a negotiation of caps drops the reference as    *)
(* setting enabled to TRUE does.  Of the processed frames, the calls that  *)
(* enable and the negotiations of caps, a processed frame that follows a   *)
(* call or a negotiation has no verdict and is stored as the reference,    *)
(* and one that follows a processed frame has exactly one verdict.         *)
(***************************************************************************)
C19_FirstSilentSinceCaps ==
    /\ ReferenceIsLastFrame
    /\ \A i \in Events : Processed(i) =>
         LET before == {j \in 1..(i - 1) : Processed(j) \/ Enabling(j) \/ Negotiating(j)}
         IN /\ \E j \in before : Enabling(j)
            /\ LET j == CHOOSE k \in before : \A l \in before : l <= k
               IN Verdicts(thread.events[i].timestamp) = IF Processed(j) THEN 1 ELSE 0

\* detection was enabled, a frame was stored without a verdict, the next
\* frame has its verdict on the bus
C19_Witness ==
    /\ Len(thread.events) = 4
    /\ Enabling(2)
    /\ Processed(3) /\ Processed(4)
    /\ thread.transform.pc = "idle"
    /\ Len(bus) = 1
    /\ bus[1].timestamp = thread.events[4].timestamp
    /\ bus[1].has_motion

(***************************************************************************)
(* C20.  While enabled is FALSE no motion verdict is ever emitted,         *)
(* whatever frames arrive; and after detection is re-enabled (enabled set  *)
(* to TRUE again, also when it was already TRUE) the next processed frame  *)
(* is silent and only re-acquires the reference, so no verdict ever        *)
(* compares a frame with a reference captured before the re-enable: a      *)
(* frame that transform_ip takes while enabled is FALSE has no verdict; a  *)
(* processed frame with no processed frame between it and the last call    *)
(* that enabled has none; and a verdict about a frame is the comparison of *)
(* that frame with the processed frame before it, which came after the     *)
(* last call that enabled.                                                 *)
(***************************************************************************)
C20_DisabledSilentReenableFresh ==
    \A i \in Events : thread.events[i].ev = "frame" =>
        LET e == thread.events[i]
            enables == {j \in 1..(i - 1) : Enabling(j)}
            frames == {j \in 1..(i - 1) : Processed(j)}
            last(S) == CHOOSE k \in S : \A l \in S : l <= k
        IN /\ ~e.enabled => Verdicts(e.timestamp) = 0
           /\ (e.enabled /\ (frames = {} \/ last(frames) < last(enables))) =>
                 Verdicts(e.timestamp) = 0
           /\ Verdicts(e.timestamp) > 0 =>
                 /\ e.enabled /\ frames # {} /\ enables # {}
                 /\ last(frames) > last(enables)
                 /\ \A m \in {bus[j] : j \in 1..Len(bus)} \cup (IF thread.transform.m # Null THEN {thread.transform.m} ELSE {}) :
                      m.timestamp = e.timestamp =>
                         m.has_motion = gst_motiondetect_apply(GrayOf(last(frames)), GrayOf(i), e.cvMaskImage, e.noiseThreshold).result

\* detection is enabled again while it is enabled and holds a reference;
\* the frame after that is processed without a verdict
C20_Witness ==
    /\ Len(thread.events) = 5
    /\ Negotiating(1) /\ Enabling(2) /\ Processed(3) /\ Enabling(4) /\ Processed(5)
    /\ thread.transform.pc = "idle"
    /\ Len(pushed) = 2
    /\ bus = <<>>


\* the step is a call of set_property that sets enabled to TRUE, a
\* negotiation of caps, or the processing of a frame while enabled
EnableStep ==
    /\ Len(thread'.events) = Len(thread.events) + 1
    /\ thread'.events[Len(thread'.events)].ev = "enabled"
    /\ thread'.events[Len(thread'.events)].value

DisableStep ==
    /\ Len(thread'.events) = Len(thread.events) + 1
    /\ thread'.events[Len(thread'.events)].ev = "enabled"
    /\ ~thread'.events[Len(thread'.events)].value

CapsStep ==
    /\ Len(thread'.events) = Len(thread.events) + 1
    /\ thread'.events[Len(thread'.events)].ev = "caps"

ProcessedStep ==
    /\ Len(thread'.events) = Len(thread.events) + 1
    /\ thread'.events[Len(thread'.events)].ev = "frame"
    /\ thread'.events[Len(thread'.events)].enabled

\* the transitions of filter->state that every reading of the claim allows
StateStep ==
    /\ filter'.state # MOTION_DETECT_STATE_INITIALISING
    /\ DisableStep => filter'.state = filter.state
    /\ (filter.state = MOTION_DETECT_STATE_ACQUIRING_REFERENCE_IMAGE
        /\ filter'.state = MOTION_DETECT_STATE_REFERENCE_IMAGE_ACQUIRED) => ProcessedStep
    /\ ProcessedStep => filter'.state = MOTION_DETECT_STATE_REFERENCE_IMAGE_ACQUIRED

(***************************************************************************)
(* C21.  The motion detector's state changes only by these transitions:    *)
(* Initializing -> AcquiringReference, AcquiringReference ->               *)
(* ReferenceAcquired (on a processed frame), ReferenceAcquired ->          *)
(* ReferenceAcquired, and any state -> AcquiringReference only through the *)
(* enable trigger; the state never returns to Initializing and setting     *)
(* enabled to FALSE leaves it unchanged.                                   *)
(***************************************************************************)
C21_Transitions ==
    [][filter'.state # filter.state =>
         /\ StateStep
         /\ (filter.state = MOTION_DETECT_STATE_REFERENCE_IMAGE_ACQUIRED
             /\ filter'.state = MOTION_DETECT_STATE_ACQUIRING_REFERENCE_IMAGE) => EnableStep]_vars

(***************************************************************************)
(* C21 as the code has it: the state goes to AcquiringReference through    *)
(* the enable trigger and through a negotiation of caps, and by no other   *)
(* step; the rest is as the claim says.                                    *)
(***************************************************************************)
C21_TransitionsAndCaps ==
    [][filter'.state # filter.state =>
         /\ StateStep
         /\ filter'.state = MOTION_DETECT_STATE_ACQUIRING_REFERENCE_IMAGE => (EnableStep \/ CapsStep)]_vars

\* the enable trigger took the state from Initializing, a reference was
\* acquired, and a negotiation of caps dropped it
C21_Witness ==
    /\ Len(thread.events) = 4
    /\ Enabling(1) /\ Negotiating(2) /\ Processed(3) /\ Negotiating(4)
    /\ filter.state = MOTION_DETECT_STATE_ACQUIRING_REFERENCE_IMAGE


\* every verdict on a frame is the comparison of that frame with the
\* processed frame immediately before it
VerdictComparesPreceding ==
    \A i \in Events : (thread.events[i].ev = "frame" /\ Verdicts(thread.events[i].timestamp) > 0) =>
        LET e == thread.events[i]
            frames == {j \in 1..(i - 1) : Processed(j)}
            preceding == CHOOSE k \in frames : \A l \in frames : l <= k
        IN /\ frames # {}
           /\ \A m \in {bus[j] : j \in 1..Len(bus)} \cup (IF thread.transform.m # Null THEN {thread.transform.m} ELSE {}) :
                m.timestamp = e.timestamp =>
                   m.has_motion = gst_motiondetect_apply(GrayOf(preceding), GrayOf(i), e.cvMaskImage, e.noiseThreshold).result

\* once caps are negotiated the reference and the current grey image are
\* two buffers
BuffersDistinct ==
    filter.cvCurrentImage # Null =>
        /\ filter.pReferenceImageGray # 0
        /\ filter.pCurrentImageGray # 0
        /\ filter.pReferenceImageGray # filter.pCurrentImageGray

(***************************************************************************)
(* C22.  After a frame is processed while detection is enabled the         *)
(* reference buffer holds the grey image of that frame and the state is    *)
(* ReferenceAcquired, so every verdict compares a frame with the processed *)
(* frame immediately before it; processing a frame exchanges the reference *)
(* and the current buffer, and the two are always distinct buffers.        *)
(***************************************************************************)
C22_ReferenceIsPrecedingFrame ==
    /\ [](ReferenceIsLastFrame /\ VerdictComparesPreceding /\ BuffersDistinct)
    /\ [][ProcessedStep =>
            /\ filter'.pReferenceImageGray = filter.pCurrentImageGray
            /\ filter'.pCurrentImageGray = filter.pReferenceImageGray]_vars

\* two frames were processed one after the other, the second got the
\* verdict of motion, and the buffers were exchanged twice
C22_Witness ==
    /\ Len(thread.events) >= 2
    /\ Processed(Len(thread.events) - 1) /\ Processed(Len(thread.events))
    /\ \E j \in 1..Len(bus) :
          /\ bus[j].timestamp = thread.events[Len(thread.events)].timestamp
          /\ bus[j].has_motion
    /\ filter.cvReferenceImageGray = GrayOf(Len(thread.events))
    /\ filter.pReferenceImageGray = 1 /\ filter.pCurrentImageGray = 2


(***************************************************************************)
(* gst_motiondetect_apply as a function of its arguments                   *)
(* (src/gst/gstmotiondetect.c:426-450): two grey images of one size, a     *)
(* mask of that size or NULL, and the noise threshold.                     *)
(***************************************************************************)
MaxAPx == 3

ApplyShapes == {s \in (1..MaxAPx) \X (1..MaxAPx) : s[1] * s[2] <= MaxAPx}

ReferenceGreys == {50, 91}

CurrentGreys == {50, 91, 250}

MaskValues == {0, 255}

\* 1.0, 0.84f, and the float below 0.2157 whose difference from 1 rounds up
NoiseThresholds == {FltOne, DEFAULT_NOISE_THRESHOLD, 14474461}

GreyImages(s, greys) == {Image(s[1], s[2], d) : d \in [1..(s[1] * s[2]) -> greys]}

InitApply ==
    /\ \E s \in ApplyShapes :
         \E r \in GreyImages(s, ReferenceGreys), c \in GreyImages(s, CurrentGreys), m \in GreyImages(s, MaskValues) \cup {Null}, nt \in NoiseThresholds :
            call = [fn |-> "gst_motiondetect_apply", cvReferenceImage |-> r, cvCurrentImage |-> c,
                    cvMaskImage |-> m, noiseThreshold |-> nt]
    /\ ret = Null
    /\ out = Null
    /\ lp = LpIdle
    /\ ElementIdle

Call_gst_motiondetect_apply ==
    /\ call.fn = "gst_motiondetect_apply"
    /\ ret = Null
    /\ LET a == gst_motiondetect_apply(call.cvReferenceImage, call.cvCurrentImage, call.cvMaskImage, call.noiseThreshold)
       IN ret' = [kind |-> "gboolean", val |-> a.result, cvReferenceImage |-> a.cvReferenceImage]
    /\ UNCHANGED <<call, out, lp>>
    /\ UNCHANGED elementVars

NextApply == Call_gst_motiondetect_apply

SpecApply == InitApply /\ [][NextApply]_vars

\* the pixels of the call that the mask leaves in the comparison
Unmasked == Selected(call.cvMaskImage, call.cvReferenceImage.width * call.cvReferenceImage.height)

AbsDifference(i) ==
    LET d == call.cvReferenceImage.data[i] - call.cvCurrentImage.data[i]
    IN IF d < 0 THEN -d ELSE d

\* pixel i and the pixels of the image under the 3x3 elliptical element
\* placed on it
Under(i) ==
    LET width == call.cvReferenceImage.width
        height == call.cvReferenceImage.height
        x == (i - 1) % width
        y == (i - 1) \div width
    IN {(y + k[2]) * width + x + k[1] + 1 :
           k \in {k \in Kernel : x + k[1] \in 0..(width - 1) /\ y + k[2] \in 0..(height - 1)}}

\* the difference at pixel i exceeds limit and survives one erosion
Survives(i, limit) == \A j \in Under(i) : AbsDifference(j) > limit

\* an integer exceeds the real number 255 * (1 - noiseThreshold) exactly
\* when it exceeds its integer part
RealLimit == Floor255(FltOne - call.noiseThreshold)

\* the integer part of 255 times the single-precision 1 - noiseThreshold
FloatLimit == Floor255(FloatOneMinus(call.noiseThreshold))

(***************************************************************************)
(* C23.  has_motion is false whenever the frame equals the previous frame  *)
(* at every unmasked pixel, for any mask and noiseThreshold; has_motion is *)
(* true whenever some unmasked pixel carries an absolute difference        *)
(* exceeding 255 * (1 - noiseThreshold) that survives one erosion with the *)
(* 3x3 elliptical element.                                                 *)
(***************************************************************************)
C23_Verdict ==
    ret.kind = "gboolean" =>
        /\ (\A i \in Unmasked : AbsDifference(i) = 0) => ~ret.val
        /\ (\E i \in Unmasked : Survives(i, RealLimit)) => ret.val

(***************************************************************************)
(* C23 as the code has it: the limit the difference has to exceed is the   *)
(* integer (int)((1 - noiseThreshold) * 255) computed in single precision; *)
(* the rest is as the claim says.                                          *)
(***************************************************************************)
C23_VerdictFloatLimit ==
    ret.kind = "gboolean" =>
        /\ (\A i \in Unmasked : AbsDifference(i) = 0) => ~ret.val
        /\ (\E i \in Unmasked : Survives(i, FloatLimit)) => ret.val

\* under a mask that excludes a pixel, at the default noiseThreshold, the
\* differences of a whole 3x1 row exceed the limit 40 and motion is reported
C23_Witness ==
    /\ ret.kind = "gboolean"
    /\ ret.val
    /\ call.noiseThreshold = DEFAULT_NOISE_THRESHOLD
    /\ call.cvMaskImage # Null
    /\ call.cvReferenceImage.width = 3
    /\ Unmasked = {2}
    /\ Survives(2, FloatLimit)
    /\ AbsDifference(2) = 41


\* the pairs (previous frame, current frame) that agree with the pair of
\* the call at every pixel where the mask is not 0
AgreeingPairs ==
    LET s == <<call.cvReferenceImage.width, call.cvReferenceImage.height>>
    IN {p \in GreyImages(s, ReferenceGreys) \X GreyImages(s, CurrentGreys) :
           \A i \in Unmasked : /\ p[1].data[i] = call.cvReferenceImage.data[i]
                               /\ p[2].data[i] = call.cvCurrentImage.data[i]}

(***************************************************************************)
(* C24.  A pixel whose mask value is 0 is excluded from the motion         *)
(* comparison: two pairs of (previous frame, current frame) that agree at  *)
(* every pixel where the mask is non-zero yield the same has_motion        *)
(* verdict, whatever the pixels under mask value 0 contain.                *)
(***************************************************************************)
C24_MaskedPixelsExcluded ==
    ret.kind = "gboolean" =>
        \A p \in AgreeingPairs :
            gst_motiondetect_apply(p[1], p[2], call.cvMaskImage, call.noiseThreshold).result = ret.val


(***************************************************************************)
(* The mask of stbt-motiondetect (src/gst/gstmotiondetect.c:466-527).      *)
(* gst_motiondetect_load_mask runs on the thread that sets the property:   *)
(* it reads the file and calls gst_motiondetect_check_mask_compability     *)
(* without the lock, and installs the mask in a locked region.  The        *)
(* warnings the element raises are kept in thread.warnings in the order    *)
(* they are raised.                                                        *)
(***************************************************************************)
MaskFiles == {"m.png", "k.png", "n.png", "missing.png"}

\* cvLoadImage with CV_LOAD_IMAGE_GRAYSCALE: m.png is 2x1 and excludes its
\* second pixel, k.png is 2x1 and excludes its first, n.png is 1x1, the
\* fourth file cannot be read
cvLoadImageGrayscale(mask) ==
    CASE mask = "m.png" -> Image(2, 1, <<255, 0>>)
      [] mask = "k.png" -> Image(2, 1, <<0, 255>>)
      [] mask = "n.png" -> Image(1, 1, <<255>>)
      [] OTHER -> Null

\* the values of the property mask: NULL or the name of a file
MaskPropertyValues == {Null} \cup {[kind |-> "string", val |-> m] : m \in MaskFiles}

cvNot(image) == Image(image.width, image.height, [i \in DOMAIN image.data |-> 255 - image.data[i]])

\* mutation: the inverted mask of the mask before stays when the mask is
\* removed
load_mask_locked_stale(f, mask, newMaskImage) ==
    [f EXCEPT !.mask = mask,
              !.cvMaskImage = newMaskImage,
              !.cvInvertedMaskImage = IF newMaskImage = Null THEN @ ELSE cvNot(newMaskImage)]

\* mutation: without a new image the mask before stays installed
load_mask_locked_keeps(f, mask, newMaskImage) ==
    IF newMaskImage = Null THEN f
    ELSE [f EXCEPT !.mask = mask,
                   !.cvMaskImage = newMaskImage,
                   !.cvInvertedMaskImage = cvNot(newMaskImage)]

\* the locked region of gst_motiondetect_load_mask
load_mask_locked(f, mask, newMaskImage) ==
    [f EXCEPT !.mask = mask,
              !.cvMaskImage = newMaskImage,
              !.cvInvertedMaskImage = IF newMaskImage = Null THEN Null ELSE cvNot(newMaskImage)]

\* what the call of gst_motiondetect_check_mask_compability in
\* gst_motiondetect_load_mask does: it returns TRUE or warns and returns
\* FALSE; where it reads through a NULL pointer the behaviour is undefined
\* and it may do either or end the process
CheckOutcomes(f) ==
    IF check_mask_dereferences_null(f) THEN {"TRUE", "FALSE", "crash"}
    ELSE IF gst_motiondetect_check_mask_compability(f) THEN {"TRUE"} ELSE {"FALSE"}

\* gst_motiondetect_load_mask up to GST_OBJECT_LOCK
MD_load_mask ==
    /\ MDAlive
    /\ thread.load.pc = "idle"
    /\ thread.calls < MaxCalls
    /\ \E value \in MaskPropertyValues :
         LET newMaskImage == IF value = Null THEN Null ELSE cvLoadImageGrayscale(value.val)
             failed == value # Null /\ newMaskImage = Null
             mask == IF failed THEN Null ELSE value
             loading == IF failed
                        THEN Append(thread.warnings, [warning |-> "GST_ELEMENT_WARNING", mask |-> value])
                        ELSE thread.warnings
         IN \E outcome \in IF value = Null THEN {"TRUE"} ELSE CheckOutcomes(filter) :
               thread' = [thread EXCEPT
                   !.calls = @ + 1,
                   !.load = IF outcome = "crash"
                            THEN [pc |-> "crash", value |-> value, mask |-> mask, newMaskImage |-> newMaskImage]
                            ELSE [pc |-> "install", value |-> value, mask |-> mask, newMaskImage |-> newMaskImage],
                   !.warnings = IF outcome = "FALSE"
                                THEN Append(loading, [warning |-> "GST_WARNING_OBJECT", mask |-> filter.mask])
                                ELSE loading]
    /\ UNCHANGED <<filter, bus, pushed>>
    /\ UNCHANGED kernelVars

\* gst_motiondetect_load_mask from GST_OBJECT_LOCK on
MD_install_mask ==
    /\ MDAlive
    /\ thread.load.pc = "install"
    /\ filter' = load_mask_locked(filter, thread.load.mask, thread.load.newMaskImage)
    /\ thread' = [thread EXCEPT !.load = LoadIdle]
    /\ UNCHANGED <<bus, pushed>>
    /\ UNCHANGED kernelVars

\* the element as g_object_new leaves it: enabled is a construct property,
\* set to its default FALSE or to the value given
InitMask ==
    /\ KernelIdle
    /\ \E value \in BOOLEAN :
         /\ filter = set_property_enabled(gst_motiondetect_init, value)
         /\ thread = [transform |-> ChainIdle, load |-> LoadIdle, frames |-> 0, calls |-> 0,
                      events |-> <<[ev |-> "enabled", value |-> value]>>, warnings |-> <<>>]
    /\ bus = <<>>
    /\ pushed = <<>>

NextMask ==
    \/ MD_set_caps
    \/ MD_load_mask
    \/ MD_install_mask
    \/ MD_transform_ip
    \/ MD_transform_ip_locked
    \/ MD_transform_ip_return

SpecMask == InitMask /\ [][NextMask]_vars


(***************************************************************************)
(* The two elements side by side: an instance is a stbt-templatematch or a *)
(* stbt-motiondetect, and each step is a step of that element.             *)
(***************************************************************************)
InitElements == InitTemplateMatch \/ InitMask

NextElements == NextTemplateMatch \/ NextMask

SpecElements == InitElements /\ [][NextElements]_vars


\* the steps of the two loaders: the step that reads a file and fails, and
\* the locked region that follows it
MaskLoadFails ==
    /\ "load" \in DOMAIN thread
    /\ thread.load.pc = "idle" /\ thread'.load.pc # "idle"
    /\ thread'.load.value # Null /\ thread'.load.newMaskImage = Null

MaskInstallAfterFailure ==
    /\ "load" \in DOMAIN thread
    /\ thread.load.pc = "install" /\ thread'.load.pc = "idle"
    /\ thread.load.value # Null /\ thread.load.newMaskImage = Null

TemplateLoadFails ==
    /\ "app" \in DOMAIN thread
    /\ thread.app.pc = "idle" /\ thread'.app.pc = "install"
    /\ thread'.app.newTemplateImage = Null

TemplateInstallAfterFailure ==
    /\ "app" \in DOMAIN thread
    /\ thread.app.pc = "install" /\ thread'.app.pc = "idle"
    /\ thread.app.newTemplateImage = Null

\* the step raises GST_ELEMENT_WARNING, a warning and not an error
ElementWarningRaised ==
    /\ Len(thread'.warnings) > Len(thread.warnings)
    /\ thread'.warnings[Len(thread.warnings) + 1].warning = "GST_ELEMENT_WARNING"

(***************************************************************************)
(* C25.  When loading a mask file or a template file fails, a non-fatal    *)
(* warning is raised and the previously installed mask (image and path)    *)
(* or template (image and path) remains installed and keeps being used     *)
(* for the following frames.                                               *)
(***************************************************************************)
C25_FailedLoadKeepsOld ==
    [][/\ (MaskLoadFails \/ TemplateLoadFails) => ElementWarningRaised
       /\ MaskInstallAfterFailure =>
             /\ filter'.mask = filter.mask
             /\ filter'.cvMaskImage = filter.cvMaskImage
             /\ filter'.cvInvertedMaskImage = filter.cvInvertedMaskImage
       /\ TemplateInstallAfterFailure =>
             /\ filter'.template = filter.template
             /\ filter'.cvTemplateImage = filter.cvTemplateImage]_vars

(***************************************************************************)
(* C25 as the code has it: when loading a mask file or a template file     *)
(* fails, a non-fatal warning is raised and the loader installs NULL: the  *)
(* mask (path, image and inverted image) or the template (path and image)  *)
(* installed before is removed, so the following frames are compared       *)
(* without a mask, or not searched.                                        *)
(***************************************************************************)
C25_FailedLoadRemovesOld ==
    [][/\ (MaskLoadFails \/ TemplateLoadFails) => (ElementWarningRaised /\ filter' = filter)
       /\ MaskInstallAfterFailure =>
             /\ filter'.mask = Null
             /\ filter'.cvMaskImage = Null
             /\ filter'.cvInvertedMaskImage = Null
       /\ TemplateInstallAfterFailure =>
             /\ filter'.template = Null
             /\ filter'.cvTemplateImage = Null
             /\ ~filter'.templateImageAcquired]_vars

\* a frame was processed under a mask, then a file that cannot be read was
\* set as the mask, and the next frame was processed without a mask
C25_Witness ==
    /\ "load" \in DOMAIN thread
    /\ \E w \in 1..Len(thread.warnings) : thread.warnings[w].warning = "GST_ELEMENT_WARNING"
    /\ \E i \in Events : \E j \in Events :
          /\ i < j
          /\ Processed(i) /\ thread.events[i].cvMaskImage # Null
          /\ Processed(j) /\ thread.events[j].cvMaskImage = Null
    /\ filter.mask = Null


(***************************************************************************)
(* C26.  After a failed template load, no frame is searched or confirmed   *)
(* and no template_match event is emitted until a later template load      *)
(* succeeds; frames keep being passed downstream meanwhile.  A load has    *)
(* failed once gst_templatematch_load_template has installed its outcome.  *)
(***************************************************************************)
C26_NoSearchAfterFailedLoad ==
    /\ "seen" \in DOMAIN thread
    /\ thread.loaded = "failed" => (~filter.templateImageAcquired /\ thread.chain.pc # "crash")
    /\ \A i \in 1..Len(thread.seen) :
         LET e == thread.seen[i]
         IN e.loaded = "failed" =>
              /\ e.best = Null /\ ~e.confirmRun
              /\ MessagesOf(e.timestamp) = {}
              /\ thread.chain.buf # Null /\ thread.chain.buf.timestamp = e.timestamp =>
                    thread.chain.m = Null /\ thread.chain.buf.data = e.data
              /\ ~(thread.chain.buf # Null /\ thread.chain.buf.timestamp = e.timestamp) =>
                    \E j \in 1..Len(pushed) : pushed[j].timestamp = e.timestamp /\ pushed[j].data = e.data

\* a frame was searched, then a template that cannot be read was set, and
\* the next frame was passed downstream without search and without message
C26_Witness ==
    /\ "seen" \in DOMAIN thread
    /\ Len(thread.seen) = 2
    /\ thread.seen[1].best # Null
    /\ thread.seen[2].loaded = "failed"
    /\ Len(pushed) = 2
    /\ Len(bus) = 1


\* the step of gst_motiondetect_load_mask that reads a file successfully
MaskLoadSucceeds ==
    /\ "load" \in DOMAIN thread
    /\ thread.load.pc = "idle" /\ thread'.load.pc # "idle"
    /\ thread'.load.newMaskImage # Null

MaskInstallAfterSuccess ==
    /\ "load" \in DOMAIN thread
    /\ thread.load.pc = "install" /\ thread'.load.pc = "idle"
    /\ thread.load.newMaskImage # Null

\* the step raises the warning of gst_motiondetect_check_mask_compability
MismatchWarningRaised ==
    \E w \in (Len(thread.warnings) + 1)..Len(thread'.warnings) :
        thread'.warnings[w].warning = "GST_WARNING_OBJECT"

\* the caps are known and the image has not the size of the frame
Mismatches(image) ==
    /\ filter.cvCurrentImage # Null
    /\ (image.width # filter.cvCurrentImage.width \/ image.height # filter.cvCurrentImage.height)

(***************************************************************************)
(* C27.  Setting the mask property validates the new mask's width and      *)
(* height against the current frame's: exactly when caps are known and the *)
(* new mask's dimensions differ from the frame's, a non-fatal warning is   *)
(* raised, and the new mask is installed in either case.                   *)
(***************************************************************************)
C27_NewMaskValidated ==
    [][/\ MaskLoadSucceeds =>
             /\ thread'.load.pc = "install"
             /\ MismatchWarningRaised <=> Mismatches(thread'.load.newMaskImage)
       /\ MaskInstallAfterSuccess =>
             /\ filter'.mask = thread.load.value
             /\ filter'.cvMaskImage = thread.load.newMaskImage]_vars


\* a mask path, a mask image and an inverted mask image that belong
\* together: all NULL, or the path of a file, its image and the inverse
MaskOfOneLoad(mask, cvMaskImage, cvInvertedMaskImage) ==
    IF mask = Null
    THEN cvMaskImage = Null /\ cvInvertedMaskImage = Null
    ELSE /\ cvMaskImage # Null /\ cvInvertedMaskImage # Null
         /\ cvMaskImage = cvLoadImageGrayscale(mask.val)
         /\ cvInvertedMaskImage = cvNot(cvMaskImage)

(***************************************************************************)
(* C30.  Replacing the mask is atomic with respect to frame processing:    *)
(* each processed frame sees the mask path, the mask image and the         *)
(* inverted mask image all from before or all from after the change; in    *)
(* every state a frame can observe, mask path, mask image and inverted     *)
(* mask image are NULL together or not at all, so the masked field of a    *)
(* verdict is true exactly when a mask image restricts the comparison.     *)
(***************************************************************************)
C30_MaskReplacedAtomically ==
    /\ "transform" \in DOMAIN thread
    /\ MaskOfOneLoad(filter.mask, filter.cvMaskImage, filter.cvInvertedMaskImage)
    /\ \A i \in Events : thread.events[i].ev = "frame" =>
         LET e == thread.events[i]
         IN /\ MaskOfOneLoad(e.mask, e.cvMaskImage, e.cvInvertedMaskImage)
            /\ \A m \in {bus[j] : j \in 1..Len(bus)} \cup (IF thread.transform.m # Null THEN {thread.transform.m} ELSE {}) :
                 m.timestamp = e.timestamp =>
                    /\ m.masked = (e.cvMaskImage # Null)
                    /\ m.mask_path = e.mask

\* a frame was processed under m.png, the mask was replaced by k.png, and
\* the next frame got its verdict under k.png
C30_Witness ==
    /\ "transform" \in DOMAIN thread
    /\ \E i \in Events : \E j \in Events :
          /\ i < j
          /\ Processed(i) /\ thread.events[i].mask = [kind |-> "string", val |-> "m.png"]
          /\ Processed(j) /\ thread.events[j].mask = [kind |-> "string", val |-> "k.png"]
          /\ \E b \in 1..Len(bus) : bus[b].timestamp = thread.events[j].timestamp /\ bus[b].masked


(***************************************************************************)
(* The two elements at the grain of the object lock.  Each handler is the  *)
(* sequence of what it does to the instance, in the order of the source:   *)
(* GST_OBJECT_LOCK and GST_OBJECT_UNLOCK, reads and writes of the fields   *)
(* of the instance (a pointer field stands for the object it points to as  *)
(* well), g_cond_wait, and the calls that leave the element: cvLoadImage,  *)
(* cvSaveImage (with debugDirectory), gst_element_post_message and         *)
(* gst_pad_push.  The accesses of both branches of a conditional are       *)
(* listed.  The streaming thread runs the caps setter and the frame        *)
(* processor, the application thread the property setter; thread holds the *)
(* handler and the position of each, filter.lock the holder of the lock.   *)
(***************************************************************************)
ReadOf(field) == [op |-> "read", field |-> field]

WriteOf(field) == [op |-> "write", field |-> field]

CallOf(function) == [op |-> function, field |-> "none"]

\* a property setter that assigns one field between lock and unlock
Assigns(field) == <<CallOf("GST_OBJECT_LOCK"), WriteOf(field), CallOf("GST_OBJECT_UNLOCK")>>

\* gst_motiondetect_check_mask_compability
check_mask_compability_ops == <<ReadOf("state"), ReadOf("cvMaskImage"), ReadOf("cvCurrentImage")>>

gst_motiondetect_set_caps_ops ==
    <<WriteOf("cvCurrentImage"), WriteOf("cvReferenceImageGray"), WriteOf("cvCurrentImageGray"),
      WriteOf("state")>> \o check_mask_compability_ops

\* gst_motiondetect_transform_ip from GST_OBJECT_LOCK to the exchange of
\* the grey images
transform_ip_locked_ops ==
    <<CallOf("GST_OBJECT_LOCK"),
      ReadOf("enabled"), ReadOf("state"),
      WriteOf("cvCurrentImage"), WriteOf("cvCurrentImageGray"),
      ReadOf("debugDirectory"), CallOf("cvSaveImage"),
      ReadOf("state"),
      WriteOf("cvReferenceImageGray"), ReadOf("cvCurrentImageGray"), ReadOf("cvMaskImage"), ReadOf("noiseThreshold"),
      ReadOf("debugDirectory"), CallOf("cvSaveImage"),
      ReadOf("mask"), ReadOf("display"),
      WriteOf("cvCurrentImage"), ReadOf("cvInvertedMaskImage"), ReadOf("cvMaskImage"),
      WriteOf("cvReferenceImageGray"), WriteOf("cvCurrentImageGray"), WriteOf("state")>>

\* mutation: the message is posted before the lock is released
gst_motiondetect_transform_ip_ops_post_locked ==
    transform_ip_locked_ops \o <<CallOf("gst_element_post_message"), CallOf("GST_OBJECT_UNLOCK")>>

gst_motiondetect_transform_ip_ops ==
    transform_ip_locked_ops \o <<CallOf("GST_OBJECT_UNLOCK"), CallOf("gst_element_post_message")>>

gst_motiondetect_load_mask_ops ==
    <<CallOf("cvLoadImage")>> \o check_mask_compability_ops
    \o <<CallOf("GST_OBJECT_LOCK"),
         WriteOf("mask"), WriteOf("cvMaskImage"), WriteOf("cvInvertedMaskImage"),
         CallOf("GST_OBJECT_UNLOCK")>>

gst_motiondetect_set_property_ops(prop_id) ==
    CASE prop_id = "PROP_ENABLED" ->
            <<CallOf("GST_OBJECT_LOCK"), WriteOf("enabled"), ReadOf("enabled"), WriteOf("state"),
              CallOf("GST_OBJECT_UNLOCK")>>
      [] prop_id = "PROP_DEBUG_DIRECTORY" -> Assigns("debugDirectory")
      [] prop_id = "PROP_NOISE_THRESHOLD" -> Assigns("noiseThreshold")
      [] prop_id = "PROP_MASK" -> gst_motiondetect_load_mask_ops
      [] prop_id = "PROP_DISPLAY" -> Assigns("display")

\* gst_templatematch_rebuild_dist_image
rebuild_dist_image_ops == <<ReadOf("cvTemplateImage"), ReadOf("cvImage"), WriteOf("cvDistImage")>>

gst_templatematch_set_caps_ops ==
    <<WriteOf("cvImage")>> \o rebuild_dist_image_ops \o <<ReadOf("cvImage"), WriteOf("capsInitialised")>>

gst_templatematch_chain_ops ==
    <<CallOf("GST_OBJECT_LOCK"),
      ReadOf("singleFrameMode"), ReadOf("singleFrameData"), CallOf("g_cond_wait"),
      ReadOf("capsInitialised"), ReadOf("templateImageAcquired"),
      WriteOf("cvImage"), ReadOf("cvTemplateImage"), WriteOf("cvDistImage"), ReadOf("matchMethod"),
      ReadOf("debugDirectory"), CallOf("cvSaveImage"),
      ReadOf("matchThreshold"),
      WriteOf("cvImageROIGray"), ReadOf("cvTemplateImageGray"), ReadOf("confirmThreshold"),
      ReadOf("confirmMethod"), ReadOf("erodePasses"),
      ReadOf("template"), ReadOf("display"), WriteOf("cvImage"),
      ReadOf("singleFrameMode"), WriteOf("singleFrameMode"), WriteOf("singleFrameData"),
      CallOf("GST_OBJECT_UNLOCK"),
      CallOf("gst_element_post_message"), CallOf("gst_pad_push")>>

gst_templatematch_load_template_ops ==
    <<CallOf("cvLoadImage"), CallOf("GST_OBJECT_LOCK"),
      WriteOf("template"), WriteOf("cvTemplateImage")>>
    \o rebuild_dist_image_ops
    \o <<WriteOf("cvImageROIGray"), WriteOf("cvTemplateImageGray"),
         ReadOf("cvTemplateImage"), WriteOf("templateImageAcquired"),
         CallOf("GST_OBJECT_UNLOCK")>>

gst_templatematch_set_property_ops(prop_id) ==
    CASE prop_id = "PROP_MATCH_METHOD" -> Assigns("matchMethod")
      [] prop_id = "PROP_MATCH_THRESHOLD" -> Assigns("matchThreshold")
      [] prop_id = "PROP_CONFIRM_METHOD" -> Assigns("confirmMethod")
      [] prop_id = "PROP_ERODE_PASSES" -> Assigns("erodePasses")
      [] prop_id = "PROP_CONFIRM_THRESHOLD" -> Assigns("confirmThreshold")
      [] prop_id = "PROP_DEBUG_DIRECTORY" -> Assigns("debugDirectory")
      [] prop_id = "PROP_TEMPLATE" -> gst_templatematch_load_template_ops
      [] prop_id = "PROP_DISPLAY" -> Assigns("display")
      [] prop_id = "PROP_SINGLE_FRAME" ->
            <<CallOf("GST_OBJECT_LOCK"), WriteOf("singleFrameMode"), WriteOf("singleFrameData"),
              CallOf("GST_OBJECT_UNLOCK")>>

MotionDetectProperties ==
    {"PROP_ENABLED", "PROP_DEBUG_DIRECTORY", "PROP_NOISE_THRESHOLD", "PROP_MASK", "PROP_DISPLAY"}

TemplateMatchProperties ==
    {"PROP_MATCH_METHOD", "PROP_MATCH_THRESHOLD", "PROP_CONFIRM_METHOD", "PROP_ERODE_PASSES",
     "PROP_CONFIRM_THRESHOLD", "PROP_DEBUG_DIRECTORY", "PROP_TEMPLATE", "PROP_DISPLAY", "PROP_SINGLE_FRAME"}

Threads == {"streaming", "application"}

\* the handlers a thread can enter
Handlers(element, t) ==
    IF t = "streaming"
    THEN {"set_caps", IF element = "stbt-motiondetect" THEN "transform_ip" ELSE "chain"}
    ELSE IF element = "stbt-motiondetect" THEN MotionDetectProperties ELSE TemplateMatchProperties

Ops(element, fn) ==
    IF element = "stbt-motiondetect"
    THEN CASE fn = "set_caps" -> gst_motiondetect_set_caps_ops
           [] fn = "transform_ip" -> gst_motiondetect_transform_ip_ops
           [] OTHER -> gst_motiondetect_set_property_ops(fn)
    ELSE CASE fn = "set_caps" -> gst_templatematch_set_caps_ops
           [] fn = "chain" -> gst_templatematch_chain_ops
           [] OTHER -> gst_templatematch_set_property_ops(fn)

Outside == [fn |-> "none", pc |-> 0, waiting |-> FALSE]

\* what thread t does next: an operation of its handler, or nothing
NextOp(t) ==
    IF thread[t].fn = "none" \/ thread[t].pc > Len(Ops(thread.element, thread[t].fn))
    THEN CallOf("none")
    ELSE Ops(thread.element, thread[t].fn)[thread[t].pc]

Advance(t) == thread' = [thread EXCEPT ![t].pc = @ + 1]

InitLocks ==
    /\ KernelIdle
    /\ \E element \in {"stbt-motiondetect", "stbt-templatematch"} :
         thread = [element |-> element, streaming |-> Outside, application |-> Outside]
    /\ filter = [lock |-> "free"]
    /\ bus = Null
    /\ pushed = Null

\* a handler is entered
SL_call ==
    /\ \E t \in Threads :
         /\ thread[t].fn = "none"
         /\ \E fn \in Handlers(thread.element, t) :
              thread' = [thread EXCEPT ![t] = [fn |-> fn, pc |-> 1, waiting |-> FALSE]]
    /\ UNCHANGED <<filter, bus, pushed>>
    /\ UNCHANGED kernelVars

\* GST_OBJECT_LOCK, and the return from g_cond_wait, which takes the lock
\* again
SL_lock ==
    /\ \E t \in Threads :
         /\ NextOp(t).op = "GST_OBJECT_LOCK" \/ thread[t].waiting
         /\ filter.lock = "free"
         /\ filter' = [filter EXCEPT !.lock = t]
         /\ thread' = [thread EXCEPT ![t].pc = @ + 1, ![t].waiting = FALSE]
    /\ UNCHANGED <<bus, pushed>>
    /\ UNCHANGED kernelVars

SL_unlock ==
    /\ \E t \in Threads :
         /\ NextOp(t).op = "GST_OBJECT_UNLOCK"
         /\ filter' = [filter EXCEPT !.lock = "free"]
         /\ Advance(t)
    /\ UNCHANGED <<bus, pushed>>
    /\ UNCHANGED kernelVars

\* g_cond_wait releases the lock while singleFrameData is NULL in single
\* frame mode
SL_wait ==
    /\ \E t \in Threads :
         /\ NextOp(t).op = "g_cond_wait" /\ ~thread[t].waiting
         /\ filter' = [filter EXCEPT !.lock = "free"]
         /\ thread' = [thread EXCEPT ![t].waiting = TRUE]
    /\ UNCHANGED <<bus, pushed>>
    /\ UNCHANGED kernelVars

\* single frame mode is off or singleFrameData is set: no wait
SL_no_wait ==
    /\ \E t \in Threads :
         /\ NextOp(t).op = "g_cond_wait" /\ ~thread[t].waiting
         /\ Advance(t)
    /\ UNCHANGED <<filter, bus, pushed>>
    /\ UNCHANGED kernelVars

\* a read or a write of a field
SL_access ==
    /\ \E t \in Threads :
         /\ NextOp(t).op \in {"read", "write"}
         /\ Advance(t)
    /\ UNCHANGED <<filter, bus, pushed>>
    /\ UNCHANGED kernelVars

\* a call that leaves the element
SL_call_out ==
    /\ \E t \in Threads :
         /\ NextOp(t).op \in {"cvLoadImage", "cvSaveImage", "gst_element_post_message", "gst_pad_push"}
         /\ Advance(t)
    /\ UNCHANGED <<filter, bus, pushed>>
    /\ UNCHANGED kernelVars

SL_return ==
    /\ \E t \in Threads :
         /\ thread[t].fn # "none"
         /\ thread[t].pc > Len(Ops(thread.element, thread[t].fn))
         /\ thread' = [thread EXCEPT ![t] = Outside]
    /\ UNCHANGED <<filter, bus, pushed>>
    /\ UNCHANGED kernelVars

NextLocks ==
    \/ SL_call
    \/ SL_lock
    \/ SL_unlock
    \/ SL_wait
    \/ SL_no_wait
    \/ SL_access
    \/ SL_call_out
    \/ SL_return

SpecLocks == InitLocks /\ [][NextLocks]_vars

\* thread t is about to read or write a field without holding the lock
Unlocked(t) == NextOp(t).op \in {"read", "write"} /\ filter.lock # t

\* the two threads are about to access the same field, one of them at
\* least to write it: nothing orders the two accesses
DataRace ==
    /\ NextOp("streaming").op \in {"read", "write"}
    /\ NextOp("application").op \in {"read", "write"}
    /\ NextOp("streaming").field = NextOp("application").field
    /\ "write" \in {NextOp("streaming").op, NextOp("application").op}

(***************************************************************************)
(* C28.  In both elements every write to the shared state of the instance  *)
(* and every read of it by frame processing happens while the object lock  *)
(* is held: no interleaving of the property setter, the caps setter and    *)
(* the frame processor lets two of them access the same field at once with *)
(* at least one writing.                                                   *)
(***************************************************************************)
C28_AccessesUnderLock ==
    /\ \A t \in Threads : NextOp(t).op = "write" => filter.lock = t
    /\ thread.streaming.fn \in {"transform_ip", "chain"} => ~Unlocked("streaming")
    /\ ~DataRace

(***************************************************************************)
(* C29.  The lock is never held across a file load: mask and template      *)
(* images are decoded before the lock is taken; and the verdict message of *)
(* a frame is posted only after frame processing has released the lock, so *)
(* neither a file load nor the delivery of a message keeps a property      *)
(* write waiting for the lock.                                             *)
(***************************************************************************)
C29_LoadAndPostOutsideLock ==
    \A t \in Threads :
        /\ NextOp(t).op \in {"cvLoadImage", "gst_element_post_message"} => filter.lock # t
        /\ thread[t].fn \in {"PROP_MASK", "PROP_TEMPLATE"} /\ filter.lock = t =>
              \E i \in 1..(thread[t].pc - 1) : Ops(thread.element, thread[t].fn)[i].op = "cvLoadImage"

\* the frame processor is about to post its message while the property
\* setter holds the lock and writes a field
C29_Witness ==
    /\ NextOp("streaming").op = "gst_element_post_message"
    /\ filter.lock = "application"
    /\ NextOp("application").op = "write"


\* the names of the fields of a message, the name of its structure aside
FieldsOf(m) == DOMAIN m \ {"name"}

\* every message on the bus, by the name of its structure, has the fields
\* given for a match and for a motion verdict
MessagesCarry(matchFields, motionFields) ==
    \A i \in 1..Len(bus) :
        /\ bus[i].name \in {"template_match", "motiondetect"}
        /\ bus[i].name = "template_match" => FieldsOf(bus[i]) = matchFields
        /\ bus[i].name = "motiondetect" => FieldsOf(bus[i]) = motionFields

MaxSingleFrames == 3
MaxWrites == 2

SingleFrameModes ==
    {GST_TM_SINGLE_FRAME_DISABLED, GST_TM_SINGLE_FRAME_NEXT, GST_TM_SINGLE_FRAME_WAIT}

\* mutation: the write leaves singleFrameData as it was
set_property_single_frame_mode_only(f, value) ==
    [f EXCEPT !.singleFrameMode = value]

\* gst_templatematch_set_property, PROP_SINGLE_FRAME, between lock and
\* unlock
set_property_single_frame(f, value) ==
    [f EXCEPT !.singleFrameMode = value,
              !.singleFrameData = [kind |-> "pointer", to |-> "singleFrameMode"]]

\* the element after construction, or with caps of 1x1 and the template
\* a.png in place
InitSingleFrame ==
    /\ KernelIdle
    /\ \E searching \in BOOLEAN :
         filter = IF searching
                  THEN load_template_locked(gst_templatematch_set_caps(gst_templatematch_init, 1, 1),
                                            [kind |-> "string", val |-> "a.png"], cvLoadImage("a.png"))
                  ELSE gst_templatematch_init
    /\ thread = [chain |-> ChainIdle, app |-> AppIdle, frames |-> 0, sets |-> 0, seen |-> <<>>,
                 warnings |-> <<>>, loaded |-> "none", log |-> <<>>]
    /\ bus = <<>>
    /\ pushed = <<>>

\* a buffer arrives on the sink pad
SingleFrame_chain ==
    /\ Alive
    /\ thread.chain.pc = "idle"
    /\ thread.frames < MaxSingleFrames
    /\ LET k == thread.frames + 1
       IN thread' = [thread EXCEPT !.frames = k,
                        !.chain = [pc |-> "lock", m |-> Null,
                                   buf |-> [timestamp |-> k, data |-> FrameData(k, 1, 1), rectangle |-> FALSE]]]
    /\ UNCHANGED <<filter, bus, pushed>>
    /\ UNCHANGED kernelVars

\* the application writes singleFrameMode: lock, assign, g_cond_signal,
\* unlock.  The signal wakes the frame that waits, which finds
\* singleFrameData set when it has the lock again.
SingleFrame_set_property ==
    /\ Alive
    /\ thread.sets < MaxWrites
    /\ filter.lock = "free"
    /\ \E value \in SingleFrameModes :
         /\ filter' = set_property_single_frame(filter, value)
         /\ thread' = [thread EXCEPT
               !.sets = @ + 1,
               !.log = Append(@, [value |-> value, after |-> Len(thread.seen),
                                  blocked |-> thread.chain.pc = "wait"]),
               !.chain.pc = IF @ = "wait" /\ filter'.singleFrameData # Null THEN "lock" ELSE @]
    /\ UNCHANGED <<bus, pushed>>
    /\ UNCHANGED kernelVars

NextSingleFrame ==
    \/ SingleFrame_chain
    \/ SingleFrame_set_property
    \/ TM_chain_lock
    \/ TM_chain_wait
    \/ TM_chain_search
    \/ TM_chain_post
    \/ TM_chain_push

SpecSingleFrame == InitSingleFrame /\ [][NextSingleFrame]_vars

\* the frames, by their place in thread.seen, that were processed while
\* singleFrameMode was not DISABLED
SingleFrames ==
    {i \in 1..Len(thread.seen) : thread.seen[i].filter.singleFrameMode # GST_TM_SINGLE_FRAME_DISABLED}

\* the last such frame before frame i, 0 if there is none
PrecedingSingleFrame(i) ==
    LET before == {j \in SingleFrames : j < i}
    IN IF before = {} THEN 0 ELSE CHOOSE j \in before : \A k \in before : k <= j

\* each frame processed in single-frame mode has a write of its own: one
\* made after the single-frame frame before it was processed
OneFramePerWrite ==
    \A i \in SingleFrames :
        \E k \in 1..Len(thread.log) :
            /\ thread.log[k].after >= PrecedingSingleFrame(i)
            /\ thread.log[k].after < i

\* a frame that waits has not been searched, posted about or pushed, does
\* not hold the lock, and the mode is WAIT
BlockedBeforeMatching ==
    thread.chain.pc = "wait" =>
        /\ filter.singleFrameMode = GST_TM_SINGLE_FRAME_WAIT
        /\ filter.singleFrameData = Null
        /\ filter.lock = "free"
        /\ ~WasSeen(thread.chain.buf.timestamp)
        /\ \A i \in 1..Len(pushed) : pushed[i].timestamp # thread.chain.buf.timestamp
        /\ \A i \in 1..Len(bus) : bus[i].timestamp # thread.chain.buf.timestamp

\* chain goes through its body with the frame
ProcessesFrame == thread.chain.pc = "locked" /\ thread'.chain.pc = "post"

\* processing in single-frame mode uses up the request and leaves WAIT
ProcessingLeavesWait ==
    ProcessesFrame /\ filter.singleFrameMode # GST_TM_SINGLE_FRAME_DISABLED =>
        /\ filter.singleFrameData # Null
        /\ filter'.singleFrameMode = GST_TM_SINGLE_FRAME_WAIT
        /\ filter'.singleFrameData = Null

\* a frame that finds the mode not DISABLED and no request goes to wait
NextFrameBlocks ==
    /\ thread.chain.pc = "locked"
    /\ filter.singleFrameMode # GST_TM_SINGLE_FRAME_DISABLED
    /\ filter.singleFrameData = Null
    /\ thread'.chain # thread.chain
    => thread'.chain.pc = "wait"

\* only a write of the property ends the wait
WriteEndsWait ==
    thread.chain.pc = "wait" /\ thread'.chain.pc # "wait" =>
        /\ Len(thread'.log) = Len(thread.log) + 1
        /\ thread'.chain.pc = "lock"

(***************************************************************************)
(* C32.  While singleFrameMode is not DISABLED the template matcher        *)
(* processes at most one frame per write of singleFrameMode: processing    *)
(* leaves the mode WAIT, the next frame blocks before any matching and     *)
(* before it is pushed, until the property is written again; several       *)
(* writes made before a frame arrives release one frame only.              *)
(***************************************************************************)
C32_OneFramePerWrite ==
    /\ [](OneFramePerWrite /\ BlockedBeforeMatching)
    /\ [][ProcessingLeavesWait /\ NextFrameBlocks /\ WriteEndsWait]_vars

\* two writes were made before the first frame arrived, that frame was
\* searched and pushed, and the second frame waits
C32_Witness ==
    /\ Len(thread.log) = 2
    /\ thread.log[2].after = 0
    /\ thread.log[1].value = GST_TM_SINGLE_FRAME_NEXT
    /\ Len(bus) = 1
    /\ Len(pushed) = 1
    /\ thread.chain.pc = "wait"
    /\ thread.chain.buf.timestamp = 2



\* the streaming thread goes on whenever it can: each step of chain is
\* taken once it stays possible; the application is free to write or not
SpecSingleFrameFair ==
    /\ SpecSingleFrame
    /\ WF_vars(TM_chain_lock)
    /\ WF_vars(TM_chain_wait)
    /\ WF_vars(TM_chain_search)
    /\ WF_vars(TM_chain_post)
    /\ WF_vars(TM_chain_push)

\* chain has frame k in hand
InChain(k) ==
    IF thread.chain.buf = Null THEN FALSE ELSE thread.chain.buf.timestamp = k

\* singleFrameMode was written while frame k was blocked
WrittenWhileBlocked(k) ==
    /\ InChain(k)
    /\ ~WasSeen(k)
    /\ \E j \in 1..Len(thread.log) :
         thread.log[j].blocked /\ thread.log[j].after = Len(thread.seen)

\* frame k went through the body of chain and was pushed downstream
ProcessedAndPushed(k) ==
    /\ WasSeen(k)
    /\ \E i \in 1..Len(pushed) : pushed[i].timestamp = k

\* a blocked frame does not hold the object lock
BlockedLeavesLock == thread.chain.pc = "wait" => filter.lock = "free"

\* no frame waits while the mode is DISABLED, and the mode stays DISABLED
\* until the property is written
DisabledLetsPass ==
    /\ [](filter.singleFrameMode = GST_TM_SINGLE_FRAME_DISABLED => thread.chain.pc # "wait")
    /\ [][filter.singleFrameMode = GST_TM_SINGLE_FRAME_DISABLED /\ filter'.singleFrameMode # GST_TM_SINGLE_FRAME_DISABLED
            => Len(thread'.log) = Len(thread.log) + 1]_vars

\* a frame in chain that does not wait for a write leaves chain
ChainEnds ==
    thread.chain.pc \in {"lock", "locked", "post", "push"} ~> thread.chain.pc \in {"idle", "wait"}

WritesBefore(i) == {k \in 1..Len(thread.log) : thread.log[k].after < i}

\* the last of them
LastWriteBefore(i) ==
    thread.log[CHOOSE k \in WritesBefore(i) : \A j \in WritesBefore(i) : j <= k]

(***************************************************************************)
(* C34.  As the descriptions of the modes state, a write of                *)
(* singleFrameMode = NEXT requests the next frame and a write of WAIT      *)
(* makes the element wait until the next request is made: after a write of *)
(* WAIT no frame is processed until a later write of NEXT, so the last     *)
(* write before any processed frame is never one of WAIT.                  *)
(***************************************************************************)
C34_WaitHoldsFrames ==
    \A i \in 1..Len(thread.seen) :
        WritesBefore(i) # {} => LastWriteBefore(i).value # GST_TM_SINGLE_FRAME_WAIT



(***************************************************************************)
(* SpecNormed: one call of gst_templatematch_confirm with AbsDiff or with  *)
(* NormalizedAbsDiff on a template and a frame region of up to three       *)
(* pixels, whose greys are drawn from 0, 100, 141 and 255, so that some    *)
(* span the whole range [0, 255] and others do not.                        *)
(***************************************************************************)
NormedTemplateGreys == {0, 100, 255}

\* colours of grey 0, 255, 100 and 141
NormedPixels == {<<0, 0, 0>>, <<255, 255, 255>>, TemplatePixel, <<0, 200, 78>>}

NormedShapes == {<<1, 1>>, <<2, 1>>, <<3, 1>>, <<1, 3>>}

InitNormed ==
    /\ \E s \in NormedShapes,
          th \in {0, DEFAULT_CONFIRM_THRESHOLD},
          method \in {GST_TM_CONFIRM_METHOD_ABSDIFF, GST_TM_CONFIRM_METHOD_NORMED_ABSDIFF},
          erodePasses \in 0..1 :
         \E t \in [1..(s[1] * s[2]) -> NormedTemplateGreys], p \in [1..(s[1] * s[2]) -> NormedPixels] :
            call = [fn |-> "confirm", input |-> Image(s[1], s[2], p),
                    templateGray |-> Image(s[1], s[2], t),
                    confirmThreshold |-> th, bestPos |-> <<0, 0>>, method |-> method,
                    erodePasses |-> erodePasses]
    /\ ret = Null
    /\ out = Image(call.templateGray.width, call.templateGray.height,
                   [i \in 1..(call.templateGray.width * call.templateGray.height) |-> ROIGrayFill])
    /\ lp = LpIdle
    /\ ElementIdle

SpecNormed == InitNormed /\ [][NextConfirm]_vars

\* the least value of the image is 0 and the greatest 255
SpansFullRange(image) ==
    /\ \E i \in 1..(image.width * image.height) : image.data[i] = 0
    /\ \E i \in 1..(image.width * image.height) : image.data[i] = 255

\* the frame region of the call, in grey
RegionGray == cvCvtColorROI(call.input, call.bestPos[1], call.bestPos[2], call.templateGray.width, call.templateGray.height)

\* the verdict of the method the call was not made with
OtherVerdict ==
    LET other == IF call.method = GST_TM_CONFIRM_METHOD_ABSDIFF
                 THEN GST_TM_CONFIRM_METHOD_NORMED_ABSDIFF
                 ELSE GST_TM_CONFIRM_METHOD_ABSDIFF
    IN gst_templatematch_confirm(out, call.input, call.templateGray, call.confirmThreshold, call.bestPos, other, call.erodePasses).confirmed

(***************************************************************************)
(* C35.  NormalizedAbsDiff differs from AbsDiff by the rescaling only: on  *)
(* a frame region and a template whose greys both have minimum 0 and       *)
(* maximum 255 the two methods return the same verdict for the same        *)
(* confirmThreshold and erodePasses.                                       *)
(***************************************************************************)
C35_SameVerdictOnFullRange ==
    /\ ret.kind = "bool"
    /\ call.fn = "confirm"
    /\ SpansFullRange(RegionGray)
    /\ SpansFullRange(call.templateGray)
    => ret.val = OtherVerdict

\* NormalizedAbsDiff has rejected a region that spans the range and differs
\* from the template, which spans it too, by 41 in its third pixel
C35_Witness ==
    /\ ret.kind = "bool"
    /\ call.fn = "confirm"
    /\ call.method = GST_TM_CONFIRM_METHOD_NORMED_ABSDIFF
    /\ call.templateGray.data = <<0, 255, 100>>
    /\ RegionGray.data = <<0, 255, 141>>
    /\ call.confirmThreshold = DEFAULT_CONFIRM_THRESHOLD
    /\ call.erodePasses = 0
    /\ ret.val = FALSE



\* transform_ip goes through its locked region with detection enabled and
\* the state not INITIALISING
ProcessesMotionFrame ==
    /\ thread.transform.pc = "lock"
    /\ thread'.transform.pc # "lock"
    /\ filter.enabled
    /\ filter.state # MOTION_DETECT_STATE_INITIALISING

\* set_caps has created the header of the current frame and the two grey
\* images
BuffersAllocated(f) ==
    /\ f.cvCurrentImage # Null
    /\ f.cvReferenceImageGray # Null
    /\ f.cvCurrentImageGray # Null
    /\ f.pReferenceImageGray # 0
    /\ f.pCurrentImageGray # 0

CoarseSearchRuns ==
    /\ "chain" \in DOMAIN thread
    /\ \/ thread.chain.pc = "locked" /\ ~SingleFrameWaits(filter)
       \/ thread.chain.pc = "crash"
    /\ filter.capsInitialised
    /\ filter.templateImageAcquired

(***************************************************************************)
(* C37.  Whenever the template matcher runs the coarse search on a frame   *)
(* (capsInitialised and templateImageAcquired both true) the current       *)
(* template is no wider and no taller than the frame, and the distance     *)
(* image exists with size (frameWidth - templateWidth + 1) x               *)
(* (frameHeight - templateHeight + 1) for the current template and caps,   *)
(* after any sequence of caps changes and template loads.                  *)
(***************************************************************************)
C37_TemplateFitsAndDistImageSized ==
    CoarseSearchRuns =>
        /\ filter.cvTemplateImage.width <= filter.cvImage.width
        /\ filter.cvTemplateImage.height <= filter.cvImage.height
        /\ filter.cvDistImage # Null
        /\ IF filter.cvDistImage = Null THEN FALSE
           ELSE /\ filter.cvDistImage.width = filter.cvImage.width - filter.cvTemplateImage.width + 1
                /\ filter.cvDistImage.height = filter.cvImage.height - filter.cvTemplateImage.height + 1



(***************************************************************************)
(* stbt-contraststretch (src/stbt-camera.d/gst/stbtcontraststretch.c).     *)
(* The application thread writes the reference-image properties, each      *)
(* write computing new coefficients outside the mutex and swapping them in *)
(* under it; the streaming thread runs transform_frame.  An array is       *)
(* [len, val, update]: its length, the value all its entries hold (the     *)
(* reference images are plain), and the number of the update that made it. *)
(***************************************************************************)
MaxUpdates == 2
MaxCSFrames == 2

\* size_t count = 1280*720*3
DefaultCount == 1280 * 720 * 3

String(s) == [kind |-> "string", val |-> s]

\* the files: two plain images of 1280x720, one of 2x1, and a name that
\* cannot be read; each is its size in bytes and the value of its pixels
ReferenceFiles == {"", "black.png", "white.png", "small.png", "missing.png"}

stbt_contrast_stretch_load_png(filename) ==
    CASE filename = "black.png" -> [size |-> DefaultCount, point |-> 16]
      [] filename = "white.png" -> [size |-> DefaultCount, point |-> 235]
      [] filename = "small.png" -> [size |-> 6, point |-> 200]
      [] OTHER -> Null

\* if (filename && filename[0] != '\0') image = stbt_contrast_stretch_load_png (...)
ReferenceImage(filename) ==
    IF filename = Null THEN Null
    ELSE IF filename.val = "" THEN Null
    ELSE stbt_contrast_stretch_load_png(filename.val)

\* stbt_contrast_stretch_update_coefficients up to the label error: the
\* locals it is about to swap in, and whether it raised the element error
update_coefficients(filename_black, filename_white, update) ==
    LET black == ReferenceImage(filename_black)
        white == ReferenceImage(filename_white)
        count == IF black # Null THEN black.size
                 ELSE IF white # Null THEN white.size
                 ELSE DefaultCount
        mismatch == IF white # Null /\ black # Null THEN white.size # black.size ELSE FALSE
        white_point == IF white # Null THEN white.point ELSE 255
        black_point == IF black # Null THEN black.point ELSE 0
        diff == white_point - black_point
    IN [reference_image_name |-> [black |-> filename_black, white |-> filename_white],
        count |-> count,
        coefficients |-> IF mismatch THEN Null
                         ELSE [len |-> count, update |-> update,
                               val |-> IF diff <= 0 THEN 255 * 256 ELSE (255 * 256) \div diff],
        offsets |-> IF mismatch THEN Null
                    ELSE [len |-> count, update |-> update, val |-> black_point],
        update |-> update,
        error |-> mismatch]

\* the five SWAPs between g_mutex_lock and g_mutex_unlock
swap_coefficients(f, local) ==
    [f EXCEPT !.reference_image_name = local.reference_image_name,
              !.coefficient_count = local.count,
              !.coefficients = local.coefficients,
              !.offsets = local.offsets,
              !.update = local.update]

\* stbt_contrast_stretch_init, on zeroed memory
stbt_contrast_stretch_init ==
    [mutex |-> "free", reference_image_name |-> [black |-> Null, white |-> Null],
     coefficient_count |-> 0, coefficients |-> Null, offsets |-> Null, update |-> 0]

\* stbt_contrast_stretch_set_property: the call of update_coefficients
set_property_reference_image(f, prop, value, update) ==
    IF prop = "black-reference-image"
    THEN update_coefficients(String(value), f.reference_image_name.white, update)
    ELSE update_coefficients(f.reference_image_name.black, String(value), update)

\* g_mutex_lock in stbt_contrast_stretch_update_coefficients returns
mutex_free_for_update(f) == f.mutex = "free"

CSTransformIdle == [pc |-> "idle", frame |-> Null, checked |-> Null]

CSAppIdle == [pc |-> "idle", local |-> Null]

\* what transform_frame reads of the element
ReadOfCoefficients(f) ==
    [coefficients |-> f.coefficients, offsets |-> f.offsets,
     coefficient_count |-> f.coefficient_count, update |-> f.update]

\* the element as g_object_new leaves it: both properties are
\* G_PARAM_CONSTRUCT with the default ""
InitContrastStretch ==
    /\ KernelIdle
    /\ filter = LET black == swap_coefficients(stbt_contrast_stretch_init,
                                set_property_reference_image(stbt_contrast_stretch_init, "black-reference-image", "", 0))
                IN swap_coefficients(black, set_property_reference_image(black, "white-reference-image", "", 0))
    /\ thread = [transform |-> CSTransformIdle, app |-> CSAppIdle, frames |-> 0, sets |-> 0,
                 answers |-> <<>>]
    /\ bus = <<>>
    /\ pushed = <<>>

\* a write of black-reference-image or white-reference-image: the images
\* are read and the arrays computed without the mutex
CS_set_property ==
    /\ "answers" \in DOMAIN thread
    /\ thread.app.pc = "idle"
    /\ thread.sets < MaxUpdates
    /\ \E prop \in {"black-reference-image", "white-reference-image"}, value \in ReferenceFiles :
         LET local == set_property_reference_image(filter, prop, value, thread.sets + 1)
         IN /\ thread' = [thread EXCEPT !.sets = @ + 1, !.app = [pc |-> "swap", local |-> local]]
            /\ bus' = IF local.error THEN Append(bus, [name |-> "GST_ELEMENT_ERROR", text |-> "Reference image sizes don't match"]) ELSE bus
    /\ UNCHANGED <<filter, pushed>>
    /\ UNCHANGED kernelVars

\* ... and swapped in under the mutex
CS_update_swap ==
    /\ "answers" \in DOMAIN thread
    /\ thread.app.pc = "swap"
    /\ mutex_free_for_update(filter)
    /\ filter' = swap_coefficients(filter, thread.app.local)
    /\ thread' = [thread EXCEPT !.app = CSAppIdle]
    /\ UNCHANGED <<bus, pushed>>
    /\ UNCHANGED kernelVars

\* the sizes of the frames
CSFrameSizes == {<<1280, 720>>, <<2, 1>>}

\* the base class calls stbt_contrast_stretch_transform_frame
CS_transform_frame ==
    /\ "answers" \in DOMAIN thread
    /\ thread.transform.pc = "idle"
    /\ thread.frames < MaxCSFrames
    /\ \E size \in CSFrameSizes :
         thread' = [thread EXCEPT !.frames = @ + 1,
                       !.transform = [pc |-> "lock", checked |-> Null,
                                      frame |-> [timestamp |-> thread.frames + 1, width |-> size[1], height |-> size[2]]]]
    /\ UNCHANGED <<filter, bus, pushed>>
    /\ UNCHANGED kernelVars

\* g_mutex_lock (&contraststretch->mutex)
CS_transform_lock ==
    /\ "answers" \in DOMAIN thread
    /\ thread.transform.pc = "lock"
    /\ filter.mutex = "free"
    /\ filter' = [filter EXCEPT !.mutex = "streaming"]
    /\ thread' = [thread EXCEPT !.transform.pc = "check"]
    /\ UNCHANGED <<bus, pushed>>
    /\ UNCHANGED kernelVars

\* the two tests: goto done, goto error, or on to the correction; neither
\* label unlocks the mutex.  On GST_FLOW_OK the base class pushes the output
\* frame downstream, written or not.
CS_transform_check ==
    /\ "answers" \in DOMAIN thread
    /\ thread.transform.pc = "check"
    /\ LET frame == thread.transform.frame
           len == frame.height * frame.width * 3
           answer(flow) == [timestamp |-> frame.timestamp, len |-> len, ret |-> flow, written |-> FALSE,
                           checked |-> ReadOfCoefficients(filter), used |-> Null]
       IN IF filter.coefficients = Null
          THEN /\ thread' = [thread EXCEPT !.transform = CSTransformIdle,
                                           !.answers = Append(@, answer("GST_FLOW_OK"))]
               /\ pushed' = Append(pushed, [timestamp |-> frame.timestamp, written |-> FALSE])
               /\ UNCHANGED bus
          ELSE IF filter.coefficient_count # len
          THEN /\ thread' = [thread EXCEPT !.transform = CSTransformIdle,
                                           !.answers = Append(@, answer("GST_FLOW_ERROR"))]
               /\ bus' = Append(bus, [name |-> "GST_ELEMENT_ERROR", text |-> "Wrong size"])
               /\ UNCHANGED pushed
          ELSE /\ thread' = [thread EXCEPT !.transform.pc = "apply",
                                           !.transform.checked = ReadOfCoefficients(filter)]
               /\ UNCHANGED <<bus, pushed>>
    /\ UNCHANGED filter
    /\ UNCHANGED kernelVars

\* stbt_contraststretch_apply on the frame, g_mutex_unlock, return
\* GST_FLOW_OK, on which the base class pushes the output frame
CS_transform_apply ==
    /\ "answers" \in DOMAIN thread
    /\ thread.transform.pc = "apply"
    /\ LET frame == thread.transform.frame
       IN /\ thread' = [thread EXCEPT
                !.transform = CSTransformIdle,
                !.answers = Append(@, [timestamp |-> frame.timestamp, len |-> frame.height * frame.width * 3,
                                        ret |-> "GST_FLOW_OK", written |-> TRUE,
                                        checked |-> thread.transform.checked,
                                        used |-> ReadOfCoefficients(filter)])]
          /\ pushed' = Append(pushed, [timestamp |-> frame.timestamp, written |-> TRUE])
    /\ filter' = [filter EXCEPT !.mutex = "free"]
    /\ UNCHANGED bus
    /\ UNCHANGED kernelVars

NextContrastStretch ==
    \/ CS_set_property
    \/ CS_update_swap
    \/ CS_transform_frame
    \/ CS_transform_lock
    \/ CS_transform_check
    \/ CS_transform_apply

SpecContrastStretch == InitContrastStretch /\ [][NextContrastStretch]_vars

(***************************************************************************)
(* C38.  stbt_contrast_stretch_transform_frame releases the element's      *)
(* mutex on every return path, also when no coefficients are installed and *)
(* when the frame size does not match coefficient_count: once it has       *)
(* returned the streaming thread does not hold the mutex, so a later       *)
(* transform_frame or write of a reference-image property never blocks     *)
(* forever.                                                                *)
(***************************************************************************)
C38_MutexReleasedOnReturn ==
    thread.transform.pc = "idle" => filter.mutex = "free"


\* the answers transform_frame has given
Answers == {thread.answers[i] : i \in 1..Len(thread.answers)}

\* what was read is of one update: both arrays absent, or both of
\* coefficient_count entries and made by the update that set the count
OfOneUpdate(r) ==
    IF r.coefficients = Null \/ r.offsets = Null
    THEN r.coefficients = Null /\ r.offsets = Null
    ELSE /\ r.coefficients.len = r.coefficient_count
         /\ r.offsets.len = r.coefficient_count
         /\ r.coefficients.update = r.update
         /\ r.offsets.update = r.update

\* the reads of one call of transform_frame: what the tests read and what
\* the correction used are each of one update, and the same
ReadsOfOneUpdate(a) ==
    /\ OfOneUpdate(a.checked)
    /\ a.used # Null => OfOneUpdate(a.used) /\ a.used = a.checked

\* every frame that has gone downstream had its output written
NoUnwrittenOutput == \A i \in 1..Len(pushed) : pushed[i].written

(***************************************************************************)
(* C39.  Whenever the contrast-stretch transform reads them, coefficients, *)
(* offsets and coefficient_count come from the same update: a concurrent   *)
(* reference-image update is seen entirely or not at all; the correction   *)
(* is applied only when coefficient_count equals width*height*3 of the     *)
(* frame, otherwise the frame is answered with a flow error and no output  *)
(* is written.                                                             *)
(***************************************************************************)
C39_ConsistentOrFlowError ==
    /\ NoUnwrittenOutput
    /\ \A a \in Answers :
        /\ ReadsOfOneUpdate(a)
        /\ a.written => a.checked.coefficient_count = a.len
        /\ ~a.written => a.ret = "GST_FLOW_ERROR"

\* the part that holds of the code: all reads of one call are of one
\* update, the correction is applied exactly when coefficients are
\* installed and their count is that of the frame, and coefficients of
\* another count are answered with GST_FLOW_ERROR
CoefficientsReadOfOneUpdate ==
    \A a \in Answers :
        /\ ReadsOfOneUpdate(a)
        /\ a.written <=> (a.checked.coefficients # Null /\ a.checked.coefficient_count = a.len)
        /\ (a.checked.coefficients # Null /\ a.checked.coefficient_count # a.len) => a.ret = "GST_FLOW_ERROR"



(***************************************************************************)
(* stbt-geometriccorrection                                                *)
(* (src/stbt-camera.d/gst/stbtgeometriccorrection.c).  The application     *)
(* thread writes camera-matrix, distortion-coefficients and                *)
(* inv-homography-matrix; the streaming thread runs transform_frame.  Each *)
(* array is held by its first two entries, counted in halves; a property   *)
(* string is the numbers sscanf reads from it, which may be fewer than the *)
(* array has.                                                              *)
(* The remapping tables are held as the arrays they were computed from.    *)
(***************************************************************************)
MaxGCWrites == 2
MaxGCFrames == 2

GCProperties == {"camera_matrix", "distortion_coefficients", "inv_homography_matrix"}

\* what sscanf reads of the strings written: two numbers, or one only
GCPropertyStrings == {<<2, 2>>, <<4, 4>>, <<6>>}

\* sscanf stores the numbers it reads and leaves the other entries
sscanf(old, string) ==
    [i \in 1..Len(old) |-> IF i <= Len(string) THEN string[i] ELSE old[i]]

\* mutation: the values are written and needs_regen is left as it was
set_property_locked_unflagged(f, prop, string) ==
    [f EXCEPT ![prop] = sscanf(@, string)]

\* stbt_geometric_correction_set_property between g_mutex_lock and
\* g_mutex_unlock
set_property_locked(f, prop, string) ==
    [f EXCEPT !.needs_regen = TRUE, ![prop] = sscanf(@, string)]

\* the tables that regenerate_remapping_matrix computes from the arrays
RemappingOf(f) ==
    [camera_matrix |-> f.camera_matrix,
     distortion_coefficients |-> f.distortion_coefficients,
     inv_homography_matrix |-> f.inv_homography_matrix]

regenerate_remapping_matrix(f) == [f EXCEPT !.remapping = RemappingOf(f)]

\* stbt_geometric_correction_transform_frame between g_mutex_lock and
\* g_mutex_unlock
transform_frame_locked(f) ==
    IF f.needs_regen
    THEN [regenerate_remapping_matrix(f) EXCEPT !.needs_regen = FALSE]
    ELSE f

\* stbt_geometric_correction_init on zeroed memory
stbt_geometric_correction_init ==
    [props_mutex |-> "free", camera_matrix |-> <<0, 0>>,
     distortion_coefficients |-> <<0, 0>>, inv_homography_matrix |-> <<0, 0>>,
     needs_regen |-> FALSE, remapping |-> Null]

\* the defaults of the three G_PARAM_CONSTRUCT properties, written by
\* g_object_new: "1.0 0.0 ...", "0.0 0.0 ..." and "1.5 0.0 ..."
Constructed ==
    set_property_locked(
        set_property_locked(
            set_property_locked(stbt_geometric_correction_init, "camera_matrix", <<2, 0>>),
            "distortion_coefficients", <<0, 0>>),
        "inv_homography_matrix", <<3, 0>>)

GCTransformIdle == [pc |-> "idle", frame |-> Null]

GCAppIdle == [pc |-> "idle", prop |-> Null, string |-> Null]

\* the element after g_object_new and stbt_geometric_correction_start
InitGeometricCorrection ==
    /\ KernelIdle
    /\ filter = regenerate_remapping_matrix(Constructed)
    /\ thread = [transform |-> GCTransformIdle, app |-> GCAppIdle, frames |-> 0, sets |-> 0,
                 remapped |-> <<>>]
    /\ bus = <<>>
    /\ pushed = <<>>

\* set_property: g_mutex_lock (&geometriccorrection->props_mutex)
GC_set_property_lock ==
    /\ "remapped" \in DOMAIN thread
    /\ thread.app.pc = "idle"
    /\ thread.sets < MaxGCWrites
    /\ filter.props_mutex = "free"
    /\ \E prop \in GCProperties, string \in GCPropertyStrings :
         thread' = [thread EXCEPT !.app = [pc |-> "locked", prop |-> prop, string |-> string]]
    /\ filter' = [filter EXCEPT !.props_mutex = "application"]
    /\ UNCHANGED <<bus, pushed>>
    /\ UNCHANGED kernelVars

\* needs_regen = TRUE, sscanf into the array, needs_regen = TRUE
GC_set_property_write ==
    /\ "remapped" \in DOMAIN thread
    /\ thread.app.pc = "locked"
    /\ filter' = set_property_locked(filter, thread.app.prop, thread.app.string)
    /\ thread' = [thread EXCEPT !.app.pc = "unlock", !.sets = @ + 1]
    /\ UNCHANGED <<bus, pushed>>
    /\ UNCHANGED kernelVars

\* g_mutex_unlock
GC_set_property_unlock ==
    /\ "remapped" \in DOMAIN thread
    /\ thread.app.pc = "unlock"
    /\ filter' = [filter EXCEPT !.props_mutex = "free"]
    /\ thread' = [thread EXCEPT !.app = GCAppIdle]
    /\ UNCHANGED <<bus, pushed>>
    /\ UNCHANGED kernelVars

\* the base class calls stbt_geometric_correction_transform_frame with a
\* frame of 1920x1080, the only size the caps allow
GC_transform_frame ==
    /\ "remapped" \in DOMAIN thread
    /\ thread.transform.pc = "idle"
    /\ thread.frames < MaxGCFrames
    /\ thread' = [thread EXCEPT !.frames = @ + 1,
                     !.transform = [pc |-> "lock", frame |-> [timestamp |-> thread.frames + 1]]]
    /\ UNCHANGED <<filter, bus, pushed>>
    /\ UNCHANGED kernelVars

\* g_mutex_lock
GC_transform_lock ==
    /\ "remapped" \in DOMAIN thread
    /\ thread.transform.pc = "lock"
    /\ filter.props_mutex = "free"
    /\ filter' = [filter EXCEPT !.props_mutex = "streaming"]
    /\ thread' = [thread EXCEPT !.transform.pc = "locked"]
    /\ UNCHANGED <<bus, pushed>>
    /\ UNCHANGED kernelVars

\* regeneration if needs_regen, and g_mutex_unlock; the frame remembers
\* how many writes had been made and whether it regenerated
GC_transform_regen ==
    /\ "remapped" \in DOMAIN thread
    /\ thread.transform.pc = "locked"
    /\ filter' = [transform_frame_locked(filter) EXCEPT !.props_mutex = "free"]
    /\ thread' = [thread EXCEPT
          !.transform = [pc |-> "remap",
                         frame |-> [timestamp |-> thread.transform.frame.timestamp,
                                    writes |-> thread.sets,
                                    latest |-> RemappingOf(filter),
                                    regenerated |-> filter.needs_regen]]]
    /\ UNCHANGED <<bus, pushed>>
    /\ UNCHANGED kernelVars

\* cvRemap with the tables, outside the mutex, and return GST_FLOW_OK
GC_transform_remap ==
    /\ "remapped" \in DOMAIN thread
    /\ thread.transform.pc = "remap"
    /\ LET frame == thread.transform.frame
           done == [timestamp |-> frame.timestamp, writes |-> frame.writes, latest |-> frame.latest,
                    regenerated |-> frame.regenerated, remapping |-> filter.remapping,
                    writes_at_remap |-> thread.sets]
       IN /\ thread' = [thread EXCEPT !.transform = GCTransformIdle, !.remapped = Append(@, done)]
          /\ pushed' = Append(pushed, [timestamp |-> frame.timestamp, remapping |-> filter.remapping])
    /\ UNCHANGED <<filter, bus>>
    /\ UNCHANGED kernelVars

NextGeometricCorrection ==
    \/ GC_set_property_lock
    \/ GC_set_property_write
    \/ GC_set_property_unlock
    \/ GC_transform_frame
    \/ GC_transform_lock
    \/ GC_transform_regen
    \/ GC_transform_remap

SpecGeometricCorrection == InitGeometricCorrection /\ [][NextGeometricCorrection]_vars

\* the writes made before frame i took the mutex that the frame before it
\* had not seen
NewWritesFor(i) ==
    thread.remapped[i].writes - (IF i = 1 THEN 0 ELSE thread.remapped[i - 1].writes)

\* every frame is remapped with tables made from the arrays as they were
\* when it held the mutex, and a frame that follows a write regenerates
FramesUseLatest ==
    \A i \in 1..Len(thread.remapped) :
        /\ thread.remapped[i].remapping = thread.remapped[i].latest
        /\ NewWritesFor(i) > 0 => thread.remapped[i].regenerated

\* while needs_regen is clear the tables are those of the arrays
TablesCurrentUnlessFlagged ==
    ~filter.needs_regen => filter.remapping = RemappingOf(filter)

\* needs_regen changes only while props_mutex is held; it is cleared by the
\* streaming thread only, together with a regeneration from the arrays
FlagChangesUnderMutex ==
    filter'.needs_regen # filter.needs_regen =>
        /\ filter.props_mutex # "free"
        /\ ~filter'.needs_regen =>
             /\ filter.props_mutex = "streaming"
             /\ filter'.remapping = RemappingOf(filter)

(***************************************************************************)
(* C40.  After any write of camera-matrix, distortion-coefficients or      *)
(* inv-homography-matrix the next transformed frame regenerates the        *)
(* remapping tables from the latest property values before it remaps;      *)
(* needs_regen is set and cleared only under props_mutex and cleared only  *)
(* by a regeneration, so no property write interleaved with frame          *)
(* processing is lost.                                                     *)
(***************************************************************************)
C40_WritesRegenerateTables ==
    /\ [](FramesUseLatest /\ TablesCurrentUnlessFlagged)
    /\ [][FlagChangesUnderMutex]_vars

\* a write was made while the first frame was between g_mutex_unlock and
\* cvRemap; the second frame regenerated and was remapped with other tables
C40_Witness ==
    /\ Len(thread.remapped) = 2
    /\ thread.remapped[1].writes = 0
    /\ thread.remapped[1].writes_at_remap = 1
    /\ thread.remapped[2].regenerated
    /\ thread.remapped[2].remapping # thread.remapped[1].remapping
====
